---- MODULE Spec2Model ----
(***************************************************************************)
(* Verification model of the open-rdma driver core:                        *)
(*   - RoundRobinStrategy (device/scheduler/round_robin.rs)                *)
(*   - MrPgt free-block allocator and Device::reg_mr / dereg_mr (mr.rs)    *)
(***************************************************************************)
EXTENDS Integers, Sequences, FiniteSets, Bags, TLC

(***************************************************************************)
(* Bounds of the model                                                     *)
(***************************************************************************)
NumThreads == 2
MaxQpn == 3
MaxBatch == 2
MaxPush == 3
MaxPop == 5
\* model size of the page table (crate::MR_PGT_SIZE entries)
MR_PGT_SIZE == 3
MaxAllocLen == 2
MaxLive == 2
MaxZeroLive == 1
\* model sizes of the key (32 bits in the driver), of its index part
\* (crate::MR_KEY_IDX_BIT_CNT) and of the MR table (crate::MR_TABLE_SIZE)
KeyWidth == 2
MR_KEY_IDX_BIT_CNT == 1
MR_TABLE_SIZE == 2
MaxMrCalls == 4
\* model size of the control-operation id counter (u32 in the driver): as in
\* the driver, the calls that are made do not exhaust it (a call takes at
\* most two op ids)
MaxOpId == 2 * MaxMrCalls
\* control poller: operations submitted, ring size
MaxCtrlOps == 2
MaxRing == 2
\* reg_mr and dereg_mr: the entries the to-card control ring holds and the
\* responses the to-host control ring holds when the device serves them
MaxCtrlRing == 1
\* UDP receive agent: frames the socket's receive buffer holds
MaxSock == 2
\* model width of usize (64 bits in the driver)
UsizeWidth == 20
\* calculate_packet_cnt: the largest raddr and total_len, in units of the
\* smallest pmtu
MaxAddrUnits == 4
MaxLenUnits == 16
\* model size of crate::types::PAGE_SIZE: 2^PageShift bytes (2 MiB in the
\* driver), and the pages and half pages the addresses and lengths of the
\* page loop go up to
PageShift == 2
MaxFillHalfPages == 4
\* the longest buffer to_rdma_message is called with, in bytes
MaxBufSize == 48

Threads == 1..NumThreads
Qpns == 1..MaxQpn

Min(a, b) == IF a <= b THEN a ELSE b

(***************************************************************************)
(* Scheduler state.                                                        *)
(*   queue     the LinkedList<(u32, LinkedList<ToCardWorkRbDesc>)>         *)
(*   poisoned  the queue mutex was poisoned by a panic under the guard     *)
(*   pc        where each calling thread is                                *)
(*   pushArg   the (qpn, desc) arguments of a push that released the       *)
(*             guard of its search and has not taken the second guard yet  *)
(* History kept for the properties:                                        *)
(*   nCalls, callsDone, pushStart   push calls started / returned, and the *)
(*             calls that had returned when each call started              *)
(*   accepted  the descriptors of the push calls that returned Ok          *)
(*   popped    the descriptors pop returned, in order                      *)
(*   nPop, lastPop   number of pop calls, outcome of the latest one        *)
(*   lastServed, prevServed   qpn served by the latest pop call and by the *)
(*             one before it (0: that call served none)                    *)
(*   activeAtPop, activeAtPrevPop   number of qpns with queued descriptors *)
(*             when the latest pop call, and the one before it, was made   *)
(*   due       see NextDue                                                 *)
(*   refOrder, refFifo, refOut   the reference scheduler                   *)
(***************************************************************************)
VARIABLES queue, poisoned, pc, pushArg,
          nCalls, callsDone, pushStart, accepted, popped,
          nPop, lastPop, lastServed, prevServed, activeAtPop, activeAtPrevPop, due,
          refOrder, refFifo, refOut

schedVars == <<queue, poisoned, pc, pushArg,
               nCalls, callsDone, pushStart, accepted, popped,
               nPop, lastPop, lastServed, prevServed, activeAtPop, activeAtPrevPop, due,
               refOrder, refFifo, refOut>>

(***************************************************************************)
(* Page-table allocator state.                                             *)
(*   freeList   MrPgt::free_blk_list: the free blocks (idx, len) in the    *)
(*              order of the linked list                                   *)
(* History kept for the properties:                                        *)
(*   allocated  the ranges alloc returned and dealloc has not released     *)
(*   pgtLast    the latest MrPgt call: its argument and its result         *)
(*              (res = -1: Err(ResourceNoAvailable))                       *)
(***************************************************************************)
VARIABLES freeList, allocated, pgtLast

pgtVars == <<freeList, allocated, pgtLast>>

(***************************************************************************)
(* Device state used by reg_mr and dereg_mr.                               *)
(*   mrTable    Device.mr_table: per slot NoMr or the MrCtx                *)
(*   pdPool     Device.pd: per protection domain the set of its Mr keys    *)
(*   lock       holder of the mr_table, pd and mr_pgt mutexes (0: free)    *)
(*   lockPoisoned  the mutexes a panicking holder poisoned                 *)
(*   mpc, mloc  position and local variables of each calling thread;       *)
(*              mloc.freeBefore is the set of free page-table indices      *)
(*              when the thread's reg_mr call began                        *)
(*   nextOpId, ctrlRing   the control-operation id counter and the         *)
(*              descriptors in the to-card control ring; the operation     *)
(*              contexts are ctrl_op_ctx_map of the control poller         *)
(* History kept for the properties:                                        *)
(*   mret       what the latest call that returned has returned, until the *)
(*              next call begins                                           *)
(*   issued     the keys reg_mr has returned                               *)
(*   liveMrs    the keys of the MRs registered and not deregistered        *)
(*   nMrCalls   number of reg_mr and dereg_mr calls made                   *)
(***************************************************************************)
VARIABLES mrTable, pdPool, lock, lockPoisoned, mpc, mloc,
          nextOpId, ctrlRing, mret, issued, liveMrs, nMrCalls

mrVars == <<mrTable, pdPool, lock, lockPoisoned, mpc, mloc,
            nextOpId, ctrlRing, mret, issued, liveMrs, nMrCalls>>

(***************************************************************************)
(* Control poller state (ControlPoller, ControlPollerContext).             *)
(*   to_host_ctrl_rb   the responses in the to-host control ring, each     *)
(*                     a variant (kind), an op_id and an is_success; a     *)
(*                     response to a descriptor of reg_mr or dereg_mr has  *)
(*                     the descriptor's variant, the variant of any other  *)
(*                     response is drawn when pop returns it               *)
(*   ringFailed        the ring is unrecoverable: its pop returns Err      *)
(*   ctrl_op_ctx_map   per op id "absent" or the context's result:         *)
(*                     "pending", "true", "false"                          *)
(*   stop_flag         ControlPoller.stop_flag                             *)
(*   ppc, pdesc        position of the poller thread and the descriptor    *)
(*                     its pop returned                                    *)
(*   dropPc            progress of ControlPoller::drop                     *)
(* History kept for the properties:                                        *)
(*   devAns            the is_success the device answered each operation   *)
(*                     with                                                *)
(*   got               what the waiter of each operation received          *)
(*   nCtrlOps          operations submitted                                *)
(*   afterStop         descriptors handled after stop_flag was set         *)
(***************************************************************************)
VARIABLES to_host_ctrl_rb, ringFailed, ctrl_op_ctx_map, stop_flag, ppc, pdesc,
          dropPc, devAns, got, nCtrlOps, afterStop

pollVars == <<to_host_ctrl_rb, ringFailed, ctrl_op_ctx_map, stop_flag, ppc, pdesc,
              dropPc, devAns, got, nCtrlOps, afterStop>>

(***************************************************************************)
(* UDP receive agent state (UDPReceiveAgent).                              *)
(*   socketQueue   the frames waiting in the socket (see Frames)           *)
(*   udpStop       UDPReceiveAgent.stop_flag                               *)
(*   upc, uframe   position of the listen thread and the frame recv_from   *)
(*                 returned                                                *)
(*   udpDropPc     progress of UDPReceiveAgent::drop                       *)
(* History kept for the properties:                                        *)
(*   delivered     the frame whose message the latest pass of the loop     *)
(*                 body handed to receiver.recv, NoFrame when it handed    *)
(*                 none                                                    *)
(***************************************************************************)
VARIABLES socketQueue, udpStop, upc, uframe, udpDropPc, delivered

udpVars == <<socketQueue, udpStop, upc, uframe, udpDropPc, delivered>>

(***************************************************************************)
(* Calls of the pure functions (utils.rs).                                 *)
(*   pktArgs   the (pmtu, raddr, total_len) calculate_packet_cnt was       *)
(*             called with, <<>> before the call                           *)
(*   pktCnt    what that call returned                                     *)
(* Calls of the page loop of register_page_table (mr.rs).                  *)
(*   fillArgs  the (addr, length, pg_size) the loop runs with and the      *)
(*             distance from a virtual address to its physical address,    *)
(*             <<>> before the call                                        *)
(*   fillRes   what the loop ended with: <<"Ok">> or the error             *)
(* Calls of <layout>::to_rdma_message (packet.rs).                         *)
(*   lenArgs   the (layout, buf_size, pad_cnt) of the call, <<>> before it *)
(*   lenRes    the payload length the call computed, Panicked when the     *)
(*             subtraction panicked                                        *)
(***************************************************************************)
VARIABLES pktArgs, pktCnt, fillArgs, fillRes, lenArgs, lenRes

utilVars == <<pktArgs, pktCnt, fillArgs, fillRes, lenArgs, lenRes>>

(***************************************************************************)
(* Packet headers (packet.rs).                                             *)
(*   bth       the bytes of a BTH a caller holds a reference to            *)
(*   bthLast   the setter called last on it and its argument               *)
(*   aeth      the bytes of an AETH a caller holds a reference to, <<>>    *)
(*             before from_bytes                                           *)
(*   aethCv    the (code, value) set_aeth_code_and_value was called with,  *)
(*             <<>> before the call                                        *)
(*   aethMsn   the msn set_msn was called with, <<>> before the call       *)
(*   codecPc   progress of a round trip through the codec: "idle",         *)
(*             "written" (set_from_rdma_message), "parsed"                 *)
(*             (to_rdma_message), "rewritten" (set_from_rdma_message of    *)
(*             the parsed message), "failed" (a call returned an Err)      *)
(*   codecMsg  the message the round trip starts from                      *)
(*   codecHdr, codecRet   the header set_from_rdma_message wrote and the   *)
(*             size it returned                                            *)
(*   codecParsed   the message to_rdma_message returned                    *)
(*   codecHdr2     the header written from the parsed message              *)
(*   codecRefused  the layout and the metadata of the calls that returned  *)
(*             InvalidMetadataType so far                                  *)
(***************************************************************************)
VARIABLES bth, bthLast, aeth, aethCv, aethMsn,
          codecPc, codecMsg, codecHdr, codecRet, codecParsed, codecHdr2,
          codecRefused

bthVars == <<bth, bthLast>>

aethVars == <<aeth, aethCv, aethMsn>>

codecVars == <<codecPc, codecMsg, codecHdr, codecRet, codecParsed, codecHdr2,
               codecRefused>>

pureVars == <<utilVars, bthVars, aethVars, codecVars>>

\* the state of the pollers and agents and of the pure functions
auxVars == <<pollVars, udpVars, pureVars>>

\* what reg_mr and dereg_mr leave alone: everything of the control poller
\* but the operation contexts
pollerVars == <<to_host_ctrl_rb, ringFailed, stop_flag, ppc, pdesc,
                dropPc, devAns, got, nCtrlOps, afterStop>>

mrAuxVars == <<pollerVars, udpVars, pureVars>>

vars == <<schedVars, pgtVars, mrVars, auxVars>>

NoArg == [qpn |-> 0, desc |-> <<>>, call |-> 0]

\* generate_random_descriptors(qpn, num): num descriptors whose dqpn is qpn;
\* call and pos identify the descriptor in the history
MkBatch(q, n, c) == [i \in 1..n |-> [dqpn |-> q, call |-> c, pos |-> i]]

\* the qpns that have at least one queued descriptor
ActiveQpns(qu) == {qu[i].qpn : i \in {j \in 1..Len(qu) : qu[j].list # <<>>}}

\* index of the first entry whose qpn is q, 0 when there is none (iter_mut scan)
FindEntry(qu, q) ==
    IF \E i \in 1..Len(qu) : qu[i].qpn = q
    THEN CHOOSE i \in 1..Len(qu) :
            /\ qu[i].qpn = q
            /\ \A j \in 1..(i - 1) : qu[j].qpn # q
    ELSE 0

\* i.1.extend(desc)
ExtendEntry(qu, i, batch) ==
    [qu EXCEPT ![i] = [qpn |-> qu[i].qpn, list |-> qu[i].list \o batch]]

\* mutation of PushBackEntry: the new entry goes to the front of the rotation
PushFrontEntry(qu, q, batch) == <<[qpn |-> q, list |-> batch]>> \o qu

\* guard.push_back((qpn.get(), desc))
PushBackEntry(qu, q, batch) == Append(qu, [qpn |-> q, list |-> batch])

\* pop on a queue whose front entry has a descriptor: the queue afterwards
\* (list.pop_front(), guard.pop_front(), push_back when the list is not empty)
PopQueue(qu) ==
    LET rest == Tail(qu[1].list)
    IN  IF rest # <<>>
        THEN Append(Tail(qu), [qpn |-> qu[1].qpn, list |-> rest])
        ELSE Tail(qu)

(***************************************************************************)
(* Reference scheduler: a rotation of qpns and one fifo per qpn.           *)
(***************************************************************************)
RefPushOrder(order, q) ==
    IF \E i \in 1..Len(order) : order[i] = q THEN order ELSE Append(order, q)

RefPopOrder(order, fifo) ==
    IF Len(fifo[order[1]]) > 1 THEN Append(Tail(order), order[1]) ELSE Tail(order)

(***************************************************************************)
(* Deadline bookkeeping for the no-starvation property: due[q] is the      *)
(* number of further pop calls within which q has to be served.            *)
(***************************************************************************)
NextDue(d, quNew, isPop, served) ==
    LET act == ActiveQpns(quNew)
        k == Cardinality(act)
    IN  [q \in Qpns |->
            IF q \notin act THEN 0
            ELSE IF q = served \/ d[q] = 0 THEN k
            ELSE IF isPop THEN Min(d[q] - 1, k)
            ELSE Min(d[q], k)]

SchedInit ==
    /\ queue = <<>>
    /\ poisoned = FALSE
    /\ pc = [t \in Threads |-> "idle"]
    /\ pushArg = [t \in Threads |-> NoArg]
    /\ nCalls = 0
    /\ callsDone = {}
    /\ pushStart = [c \in 1..MaxPush |-> {}]
    /\ accepted = {}
    /\ popped = <<>>
    /\ nPop = 0
    /\ lastPop = "none_yet"
    /\ lastServed = 0
    /\ prevServed = 0
    /\ activeAtPop = 0
    /\ activeAtPrevPop = 0
    /\ due = [q \in Qpns |-> 0]
    /\ refOrder = <<>>
    /\ refFifo = [q \in Qpns |-> <<>>]
    /\ refOut = <<>>

popHist == <<popped, nPop, lastPop, lastServed, prevServed, activeAtPop, activeAtPrevPop>>

(***************************************************************************)
(* RoundRobinStrategy::push, first part: take the guard, scan the queue    *)
(* for the qpn and merge when it is there; the guard is released when the  *)
(* for statement ends.                                                     *)
(***************************************************************************)
PushSearch(t, q, n) ==
    /\ pc[t] = "idle"
    /\ nCalls < MaxPush
    /\ LET c == nCalls + 1
           batch == MkBatch(q, n, c)
           i == FindEntry(queue, q)
       IN  /\ nCalls' = c
           /\ pushStart' = [pushStart EXCEPT ![c] = callsDone]
           /\ refOrder' = RefPushOrder(refOrder, q)
           /\ refFifo' = [refFifo EXCEPT ![q] = @ \o batch]
           /\ IF poisoned
              THEN \* lock() fails: Err(LockPoisoned)
                   /\ callsDone' = callsDone \cup {c}
                   /\ UNCHANGED <<queue, pc, pushArg, due, accepted>>
              ELSE IF i # 0
              THEN /\ queue' = ExtendEntry(queue, i, batch)
                   /\ callsDone' = callsDone \cup {c}
                   /\ accepted' = accepted \cup {batch[k] : k \in 1..n}
                   /\ due' = NextDue(due, queue', FALSE, 0)
                   /\ UNCHANGED <<pc, pushArg>>
              ELSE /\ pc' = [pc EXCEPT ![t] = "push_insert"]
                   /\ pushArg' = [pushArg EXCEPT ![t] =
                                     [qpn |-> q, desc |-> batch, call |-> c]]
                   /\ UNCHANGED <<queue, callsDone, due, accepted>>
    /\ UNCHANGED <<poisoned, popHist, refOut>>
    /\ UNCHANGED <<pgtVars, mrVars, auxVars>>

(***************************************************************************)
(* RoundRobinStrategy::push, second part: take the guard again and         *)
(* push_back the new (qpn, desc) entry.                                    *)
(***************************************************************************)
PushInsert(t) ==
    /\ pc[t] = "push_insert"
    /\ pc' = [pc EXCEPT ![t] = "idle"]
    /\ pushArg' = [pushArg EXCEPT ![t] = NoArg]
    /\ callsDone' = callsDone \cup {pushArg[t].call}
    /\ IF poisoned
       THEN \* lock() fails: Err(LockPoisoned), desc is dropped
            UNCHANGED <<queue, due, accepted>>
       ELSE /\ queue' = PushBackEntry(queue, pushArg[t].qpn, pushArg[t].desc)
            /\ accepted' = accepted \cup
                    {pushArg[t].desc[k] : k \in 1..Len(pushArg[t].desc)}
            /\ due' = NextDue(due, queue', FALSE, 0)
    /\ UNCHANGED <<poisoned, nCalls, pushStart, popHist, refOrder, refFifo, refOut>>
    /\ UNCHANGED <<pgtVars, mrVars, auxVars>>

(***************************************************************************)
(* RoundRobinStrategy::pop, the whole call under one guard.                *)
(***************************************************************************)
Pop(t) ==
    /\ pc[t] = "idle"
    /\ nPop < MaxPop
    /\ nPop' = nPop + 1
    /\ activeAtPop' = Cardinality(ActiveQpns(queue))
    /\ activeAtPrevPop' = activeAtPop
    /\ prevServed' = lastServed
    /\ IF poisoned
       THEN \* lock() fails: Err(LockPoisoned)
            /\ lastPop' = "err"
            /\ lastServed' = 0
            /\ due' = NextDue(due, queue, TRUE, 0)
            /\ UNCHANGED <<queue, poisoned, pc, popped>>
       ELSE IF queue = <<>>
       THEN \* front_mut() is None: Ok(None)
            /\ lastPop' = "none"
            /\ lastServed' = 0
            /\ due' = NextDue(due, queue, TRUE, 0)
            /\ UNCHANGED <<queue, poisoned, pc, popped>>
       ELSE IF queue[1].list = <<>>
       THEN \* list.pop_front().unwrap() panics while the guard is held
            /\ lastPop' = "panic"
            /\ lastServed' = 0
            /\ poisoned' = TRUE
            /\ pc' = [pc EXCEPT ![t] = "panicked"]
            /\ due' = NextDue(due, queue, TRUE, 0)
            /\ UNCHANGED <<queue, popped>>
       ELSE /\ lastPop' = "some"
            /\ lastServed' = queue[1].list[1].dqpn
            /\ popped' = Append(popped, queue[1].list[1])
            /\ queue' = PopQueue(queue)
            /\ due' = NextDue(due, queue', TRUE, queue[1].qpn)
            /\ UNCHANGED <<poisoned, pc>>
    /\ IF refOrder # <<>> /\ refFifo[refOrder[1]] # <<>>
       THEN /\ refOut' = Append(refOut, refFifo[refOrder[1]][1].dqpn)
            /\ refOrder' = RefPopOrder(refOrder, refFifo)
            /\ refFifo' = [refFifo EXCEPT ![refOrder[1]] = Tail(@)]
       ELSE UNCHANGED <<refOrder, refFifo, refOut>>
    /\ UNCHANGED <<pushArg, nCalls, callsDone, pushStart, accepted>>
    /\ UNCHANGED <<pgtVars, mrVars, auxVars>>


(***************************************************************************)
(* MrPgt                                                                   *)
(***************************************************************************)
Blk(i, l) == [idx |-> i, len |-> l]

RemoveAt(s, i) == SubSeq(s, 1, i - 1) \o SubSeq(s, i + 1, Len(s))

\* MrPgt::new: one free block covering the whole table
MrPgtNew == <<Blk(0, MR_PGT_SIZE)>>

\* mutation of AllocScan: a block of exactly the requested length is passed over
RECURSIVE AllocScanStrict(_, _, _)
AllocScanStrict(fl, i, len) ==
    IF i > Len(fl)
    THEN [ok |-> FALSE, idx |-> 0, list |-> fl]
    ELSE IF fl[i].len > len
    THEN [ok |-> TRUE, idx |-> fl[i].idx,
          list |-> [fl EXCEPT ![i] = Blk(fl[i].idx + len, fl[i].len - len)]]
    ELSE AllocScanStrict(fl, i + 1, len)

\* MrPgt::alloc: the walk from block i on; ok = FALSE is
\* Err(ResourceNoAvailable)
RECURSIVE AllocScan(_, _, _)
AllocScan(fl, i, len) ==
    IF i > Len(fl)
    THEN [ok |-> FALSE, idx |-> 0, list |-> fl]
    ELSE IF fl[i].len >= len
    THEN [ok |-> TRUE, idx |-> fl[i].idx,
          list |-> IF fl[i].len - len = 0
                   THEN RemoveAt(fl, i)
                   ELSE [fl EXCEPT ![i] = Blk(fl[i].idx + len, fl[i].len - len)]]
    ELSE AllocScan(fl, i + 1, len)

MrPgtAlloc(fl, len) == AllocScan(fl, 1, len)

\* MrPgt::dealloc, first loop: the number of leading blocks the walk passes
\* before it meets a block with blk.len > len
RECURSIVE InsertPos(_, _, _)
InsertPos(fl, i, len) ==
    IF i > Len(fl) \/ fl[i].len > len THEN i - 1 ELSE InsertPos(fl, i + 1, len)

\* MrPgt::dealloc, second loop: merge the new block with the blocks before it
RECURSIVE MergePrev(_, _)
MergePrev(left, new) ==
    IF left = <<>> \/ left[Len(left)].idx + left[Len(left)].len # new.len
    THEN [left |-> left, new |-> new]
    ELSE MergePrev(SubSeq(left, 1, Len(left) - 1),
                   Blk(left[Len(left)].idx, new.len + left[Len(left)].len))

\* MrPgt::dealloc, third loop: merge the new block with the blocks after it
RECURSIVE MergeNext(_, _)
MergeNext(new, right) ==
    IF right = <<>> \/ right[1].idx # new.idx + new.len
    THEN [new |-> new, right |-> right]
    ELSE MergeNext(Blk(new.idx, new.len + right[1].len), Tail(right))

\* MrPgt::dealloc: the free list afterwards
MrPgtDealloc(fl, idx, len) ==
    LET pos == InsertPos(fl, 1, len)
        mp == MergePrev(SubSeq(fl, 1, pos), Blk(idx, len))
        mn == MergeNext(mp.new, SubSeq(fl, pos + 1, Len(fl)))
    IN  mp.left \o <<mn.new>> \o mn.right

\* the page-table indices a block covers, those of the allocated ranges and
\* those the free list covers
BlkIndices(b) == b.idx..(b.idx + b.len - 1)

AllocatedIndices == UNION {BlkIndices(b) : b \in BagToSet(allocated)}

FreeIndices == UNION {BlkIndices(freeList[i]) : i \in 1..Len(freeList)}

\* the number of live zero-length allocations
ZeroLive(al) ==
    LET z == {b \in BagToSet(al) : b.len = 0}
    IN  IF z = {} THEN 0
        ELSE BagCardinality([b \in z |-> al[b]])

NoPgtCall == [op |-> "none", n |-> 0, res |-> 0]

PgtInit ==
    /\ freeList = MrPgtNew
    /\ allocated = EmptyBag
    /\ pgtLast = NoPgtCall

\* a call of MrPgt::alloc(n)
PgtAlloc(n) ==
    /\ BagCardinality(allocated) < MaxLive
    /\ n = 0 => ZeroLive(allocated) < MaxZeroLive
    /\ LET r == MrPgtAlloc(freeList, n)
       IN  /\ freeList' = r.list
           /\ allocated' = IF r.ok THEN allocated (+) SetToBag({Blk(r.idx, n)})
                           ELSE allocated
           /\ pgtLast' = [op |-> "alloc", n |-> n,
                          res |-> IF r.ok THEN r.idx ELSE -1]
    /\ UNCHANGED <<schedVars, mrVars, auxVars>>

\* a call of MrPgt::dealloc(idx, len) for a range that is allocated
PgtDealloc(b) ==
    /\ BagIn(b, allocated)
    /\ freeList' = MrPgtDealloc(freeList, b.idx, b.len)
    /\ allocated' = allocated (-) SetToBag({b})
    /\ pgtLast' = [op |-> "dealloc", n |-> b.len, res |-> b.idx]
    /\ UNCHANGED <<schedVars, mrVars, auxVars>>

PgtNext ==
    \/ \E n \in 0..MaxAllocLen : PgtAlloc(n)
    \/ \E b \in BagToSet(allocated) : PgtDealloc(b)

(***************************************************************************)
(* Device::reg_mr and Device::dereg_mr                                     *)
(***************************************************************************)
Pow2(n) == 2 ^ n

\* the protection domains alloc_pd has handed out, and the pd arguments
\* reg_mr is called with (0: no protection domain of the pool)
Pds == {1}
PdArgs == {0, 1}

\* the <<len, pg_size>> arguments reg_mr is called with: zero, one and two
\* pages, a length that is no multiple of the page size, and pg_size 0
SizeArgs == {<<0, 1>>, <<1, 1>>, <<3, 2>>, <<1, 0>>}
Slots == 0..(MR_TABLE_SIZE - 1)
Keys == 0..(Pow2(KeyWidth) - 1)
OpIds == 1..MaxOpId
Locks == {"mr_table", "pd", "mr_pgt"}

NoMr == [key |-> -1, pd |-> 0, len |-> 0, pgt_offset |-> 0, pg_size |-> 0]

\* (mr_idx as u32) << (32 - MR_KEY_IDX_BIT_CNT)
KeyIdxPart(mr_idx) == (mr_idx * Pow2(KeyWidth - MR_KEY_IDX_BIT_CNT)) % Pow2(KeyWidth)

\* rand::thread_rng().next_u32() >> MR_KEY_IDX_BIT_CNT
KeySecret(r) == r \div Pow2(MR_KEY_IDX_BIT_CNT)

\* mutation of MakeKey: the slot index is not shifted to the upper bits
MakeKeyLowIdx(mr_idx, r) == (mr_idx + KeySecret(r)) % Pow2(KeyWidth)

\* Key::new(key_idx | key_secret): the two parts have no bit in common
MakeKey(mr_idx, r) == KeyIdxPart(mr_idx) + KeySecret(r)

\* mr.key.get() >> (32 - MR_KEY_IDX_BIT_CNT)
KeySlot(key) == key \div Pow2(KeyWidth - MR_KEY_IDX_BIT_CNT)

\* u32::div_ceil
DivCeil(a, b) == (a + b - 1) \div b

\* mutation of FindFreeSlot: the first slot is taken whether it is free or not
FirstSlot(tbl) == 0

\* mr_table.iter().enumerate().find_map(|(idx, ctx)| ctx.is_none().then_some(idx));
\* -1 when every slot is taken
FindFreeSlot(tbl) ==
    IF \E i \in Slots : tbl[i] = NoMr
    THEN CHOOSE i \in Slots : tbl[i] = NoMr /\ \A j \in Slots : j < i => tbl[j] # NoMr
    ELSE -1

NoLoc == [op |-> "none", pd |-> 0, len |-> 0, pg |-> 0, key |-> -1, idx |-> -1,
          pgte |-> 0, off |-> 0, opid |-> 0,
          mismatch |-> FALSE, pushed |-> FALSE, freed |-> FALSE,
          freeBefore |-> {}]

NoRet == [op |-> "none", res |-> "none", key |-> -1,
          mismatch |-> FALSE, pushed |-> FALSE, freed |-> FALSE,
          slotKept |-> TRUE, pdKept |-> TRUE]

MrInit ==
    /\ mrTable = [i \in Slots |-> NoMr]
    /\ pdPool = [p \in Pds |-> {}]
    /\ lock = [l \in Locks |-> 0]
    /\ lockPoisoned = [l \in Locks |-> FALSE]
    /\ mpc = [t \in Threads |-> "idle"]
    /\ mloc = [t \in Threads |-> NoLoc]
    /\ nextOpId = 1
    /\ ctrlRing = <<>>
    /\ mret = NoRet
    /\ issued = {}
    /\ liveMrs = {}
    /\ nMrCalls = 0

\* the guards of thread t are dropped
Unlock(t) == [l \in Locks |-> IF lock[l] = t THEN 0 ELSE lock[l]]

\* thread t returns res from its call; every guard it holds is dropped
Return(t, res, key) ==
    /\ mpc' = [mpc EXCEPT ![t] = "idle"]
    /\ mloc' = [mloc EXCEPT ![t] = NoLoc]
    /\ lock' = Unlock(t)
    /\ mret' = [op |-> mloc[t].op, res |-> res, key |-> key,
                 mismatch |-> mloc[t].mismatch,
                 pushed |-> mloc[t].pushed,
                 freed |-> mloc[t].freed,
                 slotKept |-> IF mloc[t].idx \in Slots
                              THEN mrTable'[mloc[t].idx] = mrTable[mloc[t].idx]
                              ELSE TRUE,
                 pdKept |-> pdPool' = pdPool]

\* get_ctrl_op_id: the value of the wrapping counter is handed out (it is
\* nextOpId of the state before) and the counter moves on
GetCtrlOpId == nextOpId' = (nextOpId % MaxOpId) + 1

\* do_ctrl_op(op_id, desc): the operation context of op_id is installed and
\* the descriptor is pushed to the to-card control ring, which has room for
\* it (on overflow the caller blocks or gets an error)
DoCtrlOp(t, op_id, desc) ==
    /\ Len(ctrlRing) < MaxCtrlRing
    /\ ctrl_op_ctx_map' = [ctrl_op_ctx_map EXCEPT ![op_id] = "pending"]
    /\ ctrlRing' = Append(ctrlRing, [desc EXCEPT !.op_id = op_id])

\* the device takes a descriptor of the to-card control ring and writes its
\* response, of the descriptor's variant and op id, to the to-host control
\* ring; the control poller (PollLoop, PollPop, PollHandle) publishes it
DevRespond(i, ok) ==
    /\ i \in 1..Len(ctrlRing)
    /\ Len(to_host_ctrl_rb) < MaxCtrlRing
    /\ ctrlRing' = RemoveAt(ctrlRing, i)
    /\ to_host_ctrl_rb' = Append(to_host_ctrl_rb,
                                 [kind |-> ctrlRing[i].kind,
                                  op_id |-> ctrlRing[i].op_id,
                                  is_success |-> ok])
    /\ UNCHANGED <<mrTable, pdPool, lock, lockPoisoned, mpc, mloc,
                   nextOpId, mret, issued, liveMrs, nMrCalls>>
    /\ UNCHANGED <<ringFailed, ctrl_op_ctx_map, stop_flag, ppc, pdesc, dropPc,
                   devAns, got, nCtrlOps, afterStop>>
    /\ UNCHANGED <<schedVars, pgtVars, udpVars, pureVars>>

\* a thread calls reg_mr(pd, addr, len, pg_size, acc_flags) and gets through
\* self.0.mr_table.lock()
RegMrCall(t, pd, len, pg) ==
    /\ mpc[t] = "idle"
    /\ nMrCalls < MaxMrCalls
    /\ lock["mr_table"] = 0
    /\ nMrCalls' = nMrCalls + 1
    /\ IF lockPoisoned["mr_table"]
       THEN /\ mret' = [NoRet EXCEPT !.op = "reg_mr", !.res = "LockPoisoned"]
            /\ UNCHANGED <<mpc, mloc, lock>>
       ELSE /\ lock' = [lock EXCEPT !["mr_table"] = t]
            /\ mpc' = [mpc EXCEPT ![t] = "lock_pd"]
            /\ mloc' = [mloc EXCEPT ![t] = [NoLoc EXCEPT !.op = "reg_mr", !.pd = pd,
                                                          !.len = len, !.pg = pg,
                                                          !.freeBefore = FreeIndices]]
            /\ mret' = NoRet
    /\ UNCHANGED <<mrTable, pdPool, lockPoisoned, nextOpId, ctrl_op_ctx_map,
                   ctrlRing, issued, liveMrs>>
    /\ UNCHANGED <<schedVars, pgtVars, mrAuxVars>>

\* a thread calls dereg_mr(mr) with an Mr that reg_mr returned and gets
\* through self.0.mr_table.lock()
DeregMrCall(t, key) ==
    /\ mpc[t] = "idle"
    /\ nMrCalls < MaxMrCalls
    /\ key \in issued
    /\ lock["mr_table"] = 0
    /\ nMrCalls' = nMrCalls + 1
    /\ IF lockPoisoned["mr_table"]
       THEN /\ mret' = [NoRet EXCEPT !.op = "dereg_mr", !.res = "LockPoisoned"]
            /\ UNCHANGED <<mpc, mloc, lock>>
       ELSE /\ lock' = [lock EXCEPT !["mr_table"] = t]
            /\ mpc' = [mpc EXCEPT ![t] = "lock_pd"]
            /\ mloc' = [mloc EXCEPT ![t] = [NoLoc EXCEPT !.op = "dereg_mr", !.key = key]]
            /\ mret' = NoRet
    /\ UNCHANGED <<mrTable, pdPool, lockPoisoned, nextOpId, ctrl_op_ctx_map,
                   ctrlRing, issued, liveMrs>>
    /\ UNCHANGED <<schedVars, pgtVars, mrAuxVars>>

\* self.0.pd.lock() of reg_mr and dereg_mr
LockPd(t) ==
    /\ mpc[t] = "lock_pd"
    /\ lock["pd"] = 0
    /\ UNCHANGED <<mrTable, pdPool, lockPoisoned, nextOpId, ctrl_op_ctx_map, ctrlRing,
                   issued, liveMrs, nMrCalls>>
    /\ UNCHANGED <<schedVars, pgtVars, mrAuxVars>>
    /\ IF lockPoisoned["pd"]
       THEN Return(t, "LockPoisoned", -1)
       ELSE /\ lock' = [lock EXCEPT !["pd"] = t]
            /\ mpc' = [mpc EXCEPT ![t] =
                          IF mloc[t].op = "reg_mr" THEN "reg_find" ELSE "dereg_lookup"]
            /\ UNCHANGED <<mloc, mret>>

\* mutation of RegFind: the op id of the page-table update is taken before
\* the slot and the protection domain are looked up
RegFindAfterOpId(t) ==
    /\ mpc[t] = "reg_find"
    /\ nextOpId' = (nextOpId % MaxOpId) + 1
    /\ UNCHANGED <<mrTable, pdPool, lockPoisoned, ctrl_op_ctx_map, ctrlRing,
                   issued, liveMrs, nMrCalls>>
    /\ UNCHANGED <<schedVars, pgtVars, mrAuxVars>>
    /\ IF FindFreeSlot(mrTable) = -1
       THEN Return(t, "ResourceNoAvailable", -1)
       ELSE IF mloc[t].pd \notin DOMAIN pdPool
       THEN Return(t, "Invalid", -1)
       ELSE /\ mloc' = [mloc EXCEPT ![t].idx = FindFreeSlot(mrTable)]
            /\ mpc' = [mpc EXCEPT ![t] = "rpt_lock"]
            /\ UNCHANGED <<lock, mret>>

\* reg_mr: the free slot and the protection domain are looked up
RegFind(t) ==
    /\ mpc[t] = "reg_find"
    /\ UNCHANGED <<mrTable, pdPool, lockPoisoned, nextOpId, ctrl_op_ctx_map, ctrlRing,
                   issued, liveMrs, nMrCalls>>
    /\ UNCHANGED <<schedVars, pgtVars, mrAuxVars>>
    /\ IF FindFreeSlot(mrTable) = -1
       THEN Return(t, "ResourceNoAvailable", -1)
       ELSE IF mloc[t].pd \notin DOMAIN pdPool
       THEN Return(t, "Invalid", -1)
       ELSE /\ mloc' = [mloc EXCEPT ![t].idx = FindFreeSlot(mrTable)]
            /\ mpc' = [mpc EXCEPT ![t] = "rpt_lock"]
            /\ UNCHANGED <<lock, mret>>

\* register_page_table: self.0.mr_pgt.lock()
RptLock(t) ==
    /\ mpc[t] = "rpt_lock"
    /\ lock["mr_pgt"] = 0
    /\ UNCHANGED <<mrTable, pdPool, lockPoisoned, nextOpId, ctrl_op_ctx_map, ctrlRing,
                   issued, liveMrs, nMrCalls>>
    /\ UNCHANGED <<schedVars, pgtVars, mrAuxVars>>
    /\ IF lockPoisoned["mr_pgt"]
       THEN Return(t, "LockPoisoned", -1)
       ELSE /\ lock' = [lock EXCEPT !["mr_pgt"] = t]
            /\ mpc' = [mpc EXCEPT ![t] = "rpt_alloc"]
            /\ UNCHANGED <<mloc, mret>>

\* register_page_table: pgte_cnt = length.div_ceil(pg_size) and
\* mr_pgt.alloc(pgte_cnt); the division panics when pg_size is 0
RptAlloc(t) ==
    /\ mpc[t] = "rpt_alloc"
    /\ UNCHANGED <<mrTable, pdPool, nextOpId, ctrl_op_ctx_map, ctrlRing,
                   issued, liveMrs, nMrCalls>>
    /\ UNCHANGED <<schedVars, mrAuxVars>>
    /\ IF mloc[t].pg = 0
       THEN /\ mpc' = [mpc EXCEPT ![t] = "panicked"]
            /\ lockPoisoned' = [l \in Locks |-> lockPoisoned[l] \/ lock[l] = t]
            /\ lock' = Unlock(t)
            /\ UNCHANGED <<mloc, mret, pgtVars>>
       ELSE LET cnt == DivCeil(mloc[t].len, mloc[t].pg)
                r == MrPgtAlloc(freeList, cnt)
            IN  /\ pgtLast' = [op |-> "alloc", n |-> cnt,
                               res |-> IF r.ok THEN r.idx ELSE -1]
                /\ UNCHANGED lockPoisoned
                /\ IF r.ok
                   THEN /\ freeList' = r.list
                        /\ allocated' = allocated (+) SetToBag({Blk(r.idx, cnt)})
                        /\ mloc' = [mloc EXCEPT ![t].pgte = cnt, ![t].off = r.idx]
                        /\ mpc' = [mpc EXCEPT ![t] = "rpt_fill"]
                        /\ UNCHANGED <<lock, mret>>
                   ELSE /\ UNCHANGED <<freeList, allocated>>
                        /\ Return(t, "ResourceNoAvailable", -1)

\* register_page_table: the loop that translates and checks every page and
\* fills the table; outcome is what the adaptor and the alignment checks give
RptFill(t, outcome) ==
    /\ mpc[t] = "rpt_fill"
    /\ outcome # "ok" => mloc[t].pgte > 0
    /\ UNCHANGED <<mrTable, pdPool, lockPoisoned, nextOpId, ctrl_op_ctx_map, ctrlRing,
                   issued, liveMrs, nMrCalls>>
    /\ UNCHANGED <<schedVars, pgtVars, mrAuxVars>>
    /\ IF outcome = "ok"
       THEN /\ mpc' = [mpc EXCEPT ![t] = "rpt_push"]
            /\ UNCHANGED <<mloc, lock, mret>>
       ELSE Return(t, outcome, -1)

\* the op ids of the descriptors in the to-card ring and of the responses in
\* the to-host ring and in the hands of the poller
InFlightIds ==
    {ctrlRing[i].op_id : i \in 1..Len(ctrlRing)}
        \cup {to_host_ctrl_rb[i].op_id : i \in 1..Len(to_host_ctrl_rb)}
        \cup (IF ppc = "handle" THEN {pdesc.op_id} ELSE {})

\* outcomes of wait_result at its call sites: the result the poller set,
\* Ok(None), or Err
WaitOutcomes == {"result", "None", "Err"}

\* the `?` and the ok_or(SetCtxResultFailed)`?` behind a wait_result call:
\* whatever the device has done with the descriptor, the caller returns the
\* error, the operation context goes with it, the guards are dropped and
\* nothing else is undone; the descriptor or its response stays where it is
WaitFails(t, w) ==
    /\ w \in {"None", "Err"}
    /\ ctrl_op_ctx_map' = [ctrl_op_ctx_map EXCEPT ![mloc[t].opid] = "absent"]
    /\ Return(t, IF w = "None" THEN "SetCtxResultFailed" ELSE "WaitResultErr", -1)

\* register_page_table: get_ctrl_op_id, then the UpdatePageTable descriptor
\* is built (the physical address of the table is looked up) and handed to
\* do_ctrl_op; a failed lookup or a failed do_ctrl_op returns with the op id
\* already taken and the allocation left in place
RptPush(t, physOk, ctrlOk) ==
    /\ mpc[t] = "rpt_push"
    /\ GetCtrlOpId
    /\ UNCHANGED <<mrTable, pdPool, lockPoisoned, issued, liveMrs, nMrCalls>>
    /\ UNCHANGED <<schedVars, pgtVars, mrAuxVars>>
    /\ IF ~physOk
       THEN /\ UNCHANGED <<ctrl_op_ctx_map, ctrlRing>>
            /\ Return(t, "GetPhysAddrFailed", -1)
       ELSE IF ~ctrlOk
       THEN /\ UNCHANGED <<ctrl_op_ctx_map, ctrlRing>>
            /\ Return(t, "DoCtrlOpErr", -1)
       ELSE /\ DoCtrlOp(t, nextOpId,
                        [kind |-> "UpdatePageTable", op_id |-> 0, key |-> -1,
                         len |-> mloc[t].pgte, pgt_offset |-> mloc[t].off,
                         pd_hdl |-> 0])
            /\ mloc' = [mloc EXCEPT ![t].opid = nextOpId]
            /\ mpc' = [mpc EXCEPT ![t] = "rpt_wait"]
            /\ UNCHANGED <<lock, mret>>

\* register_page_table: wait_result of the UpdatePageTable operation; only a
\* result of false deallocates the entries
RptWait(t, w) ==
    /\ mpc[t] = "rpt_wait"
    /\ UNCHANGED <<mrTable, pdPool, lockPoisoned, nextOpId, ctrlRing,
                   issued, liveMrs, nMrCalls>>
    /\ UNCHANGED <<schedVars, mrAuxVars>>
    /\ IF w # "result"
       THEN /\ WaitFails(t, w)
            /\ UNCHANGED pgtVars
       ELSE /\ ctrl_op_ctx_map[mloc[t].opid] \in {"true", "false"}
            /\ ctrl_op_ctx_map' = [ctrl_op_ctx_map EXCEPT ![mloc[t].opid] = "absent"]
            /\ IF ctrl_op_ctx_map[mloc[t].opid] = "true"
               THEN /\ lock' = [lock EXCEPT !["mr_pgt"] = 0]
                    /\ mpc' = [mpc EXCEPT ![t] = "reg_push"]
                    /\ UNCHANGED <<mloc, mret, pgtVars>>
               ELSE /\ freeList' = MrPgtDealloc(freeList, mloc[t].off, mloc[t].pgte)
                    /\ allocated' = allocated (-) SetToBag({Blk(mloc[t].off, mloc[t].pgte)})
                    /\ pgtLast' = [op |-> "dealloc", n |-> mloc[t].pgte, res |-> mloc[t].off]
                    /\ Return(t, "DeviceReturnFailed", -1)

\* reg_mr: the key is built from the slot index and a random number r, and
\* the UpdateMrTable descriptor is handed to do_ctrl_op; a failed do_ctrl_op
\* returns with the op id taken and the page-table entries still allocated
RegPush(t, r, ctrlOk) ==
    /\ mpc[t] = "reg_push"
    /\ GetCtrlOpId
    /\ UNCHANGED <<mrTable, pdPool, lockPoisoned, issued, liveMrs, nMrCalls>>
    /\ UNCHANGED <<schedVars, pgtVars, mrAuxVars>>
    /\ IF ~ctrlOk
       THEN /\ UNCHANGED <<ctrl_op_ctx_map, ctrlRing>>
            /\ Return(t, "DoCtrlOpErr", -1)
       ELSE /\ DoCtrlOp(t, nextOpId,
                        [kind |-> "UpdateMrTable", op_id |-> 0,
                         key |-> MakeKey(mloc[t].idx, r),
                         len |-> mloc[t].len, pgt_offset |-> mloc[t].off,
                         pd_hdl |-> mloc[t].pd])
            /\ mloc' = [mloc EXCEPT ![t].opid = nextOpId,
                                    ![t].key = MakeKey(mloc[t].idx, r)]
            /\ mpc' = [mpc EXCEPT ![t] = "reg_wait"]
            /\ UNCHANGED <<lock, mret>>

\* mutation of RegWait: the slot is filled before the result is looked at
RegWaitFillsFirst(t, w) ==
    /\ mpc[t] = "reg_wait"
    /\ UNCHANGED <<lockPoisoned, nextOpId, ctrlRing, nMrCalls>>
    /\ UNCHANGED <<schedVars, pgtVars, mrAuxVars>>
    /\ IF w # "result"
       THEN /\ UNCHANGED <<mrTable, pdPool, issued, liveMrs>>
            /\ WaitFails(t, w)
       ELSE /\ ctrl_op_ctx_map[mloc[t].opid] \in {"true", "false"}
            /\ ctrl_op_ctx_map' = [ctrl_op_ctx_map EXCEPT ![mloc[t].opid] = "absent"]
            /\ mrTable' = [mrTable EXCEPT ![mloc[t].idx] =
                              [key |-> mloc[t].key, pd |-> mloc[t].pd,
                               len |-> mloc[t].len, pgt_offset |-> mloc[t].off,
                               pg_size |-> mloc[t].pg]]
            /\ IF ctrl_op_ctx_map[mloc[t].opid] = "false"
               THEN /\ UNCHANGED <<pdPool, issued, liveMrs>>
                    /\ Return(t, "DeviceReturnFailed", -1)
               ELSE IF mloc[t].key \in pdPool[mloc[t].pd]
               THEN /\ UNCHANGED <<pdPool, issued, liveMrs>>
                    /\ Return(t, "Invalid", -1)
               ELSE /\ pdPool' = [pdPool EXCEPT ![mloc[t].pd] = @ \cup {mloc[t].key}]
                    /\ issued' = issued \cup {mloc[t].key}
                    /\ liveMrs' = liveMrs \cup {mloc[t].key}
                    /\ Return(t, "Ok", mloc[t].key)

\* reg_mr: wait_result of the UpdateMrTable operation, then the slot and the
\* PD's set are filled; a failed wait returns with the slot empty and the
\* page-table entries still allocated
RegWait(t, w) ==
    /\ mpc[t] = "reg_wait"
    /\ UNCHANGED <<lockPoisoned, nextOpId, ctrlRing, nMrCalls>>
    /\ UNCHANGED <<schedVars, pgtVars, mrAuxVars>>
    /\ IF w # "result"
       THEN /\ UNCHANGED <<mrTable, pdPool, issued, liveMrs>>
            /\ WaitFails(t, w)
       ELSE /\ ctrl_op_ctx_map[mloc[t].opid] \in {"true", "false"}
            /\ ctrl_op_ctx_map' = [ctrl_op_ctx_map EXCEPT ![mloc[t].opid] = "absent"]
            /\ IF ctrl_op_ctx_map[mloc[t].opid] = "false"
               THEN /\ UNCHANGED <<mrTable, pdPool, issued, liveMrs>>
                    /\ Return(t, "DeviceReturnFailed", -1)
               ELSE /\ mrTable' = [mrTable EXCEPT ![mloc[t].idx] =
                                     [key |-> mloc[t].key, pd |-> mloc[t].pd,
                                      len |-> mloc[t].len, pgt_offset |-> mloc[t].off,
                                      pg_size |-> mloc[t].pg]]
                    /\ IF mloc[t].key \in pdPool[mloc[t].pd]
                       THEN /\ UNCHANGED <<pdPool, issued, liveMrs>>
                            /\ Return(t, "Invalid", -1)
                       ELSE /\ pdPool' = [pdPool EXCEPT ![mloc[t].pd] = @ \cup {mloc[t].key}]
                            /\ issued' = issued \cup {mloc[t].key}
                            /\ liveMrs' = liveMrs \cup {mloc[t].key}
                            /\ Return(t, "Ok", mloc[t].key)

\* dereg_mr: the slot is looked up by the index part of the key, the PD by the
\* slot's MrCtx, and the zeroed UpdateMrTable descriptor is handed to
\* do_ctrl_op; a failed do_ctrl_op returns with the op id taken
DeregLookup(t, ctrlOk) ==
    /\ mpc[t] = "dereg_lookup"
    /\ UNCHANGED <<mrTable, pdPool, lockPoisoned, issued, liveMrs, nMrCalls>>
    /\ UNCHANGED <<schedVars, pgtVars, mrAuxVars>>
    /\ LET idx == KeySlot(mloc[t].key)
       IN  IF idx \notin Slots \/ mrTable[idx] = NoMr
              \/ mrTable[idx].pd \notin DOMAIN pdPool
           THEN /\ UNCHANGED <<nextOpId, ctrl_op_ctx_map, ctrlRing>>
                /\ Return(t, "Invalid", -1)
           ELSE IF ~ctrlOk
           THEN /\ GetCtrlOpId
                /\ UNCHANGED <<ctrl_op_ctx_map, ctrlRing>>
                /\ Return(t, "DoCtrlOpErr", -1)
           ELSE /\ GetCtrlOpId
                /\ DoCtrlOp(t, nextOpId,
                            [kind |-> "UpdateMrTable", op_id |-> 0,
                             key |-> mloc[t].key, len |-> 0,
                             pgt_offset |-> 0, pd_hdl |-> 0])
                /\ mloc' = [mloc EXCEPT ![t].idx = idx,
                                        ![t].opid = nextOpId,
                                        ![t].pushed = TRUE,
                                        ![t].mismatch = (mrTable[idx].key # mloc[t].key)]
                /\ mpc' = [mpc EXCEPT ![t] = "dereg_wait"]
                /\ UNCHANGED <<lock, mret>>

\* mutation of DeregWait: the slot is emptied before the result is looked at
DeregWaitEmptiesSlot(t, w) ==
    /\ mpc[t] = "dereg_wait"
    /\ UNCHANGED <<pdPool, lockPoisoned, nextOpId, ctrlRing,
                   issued, liveMrs, nMrCalls>>
    /\ UNCHANGED <<schedVars, pgtVars, mrAuxVars>>
    /\ IF w # "result"
       THEN /\ UNCHANGED mrTable
            /\ WaitFails(t, w)
       ELSE /\ ctrl_op_ctx_map[mloc[t].opid] \in {"true", "false"}
            /\ ctrl_op_ctx_map' = [ctrl_op_ctx_map EXCEPT ![mloc[t].opid] = "absent"]
            /\ IF ctrl_op_ctx_map[mloc[t].opid] = "false"
               THEN /\ mrTable' = [mrTable EXCEPT ![mloc[t].idx] = NoMr]
                    /\ Return(t, "DeviceReturnFailed", -1)
               ELSE /\ mpc' = [mpc EXCEPT ![t] = "dereg_pgt"]
                    /\ UNCHANGED <<mrTable, mloc, lock, mret>>

\* dereg_mr: wait_result of the UpdateMrTable operation; a failed wait returns
\* with the MR still registered
DeregWait(t, w) ==
    /\ mpc[t] = "dereg_wait"
    /\ UNCHANGED <<mrTable, pdPool, lockPoisoned, nextOpId, ctrlRing,
                   issued, liveMrs, nMrCalls>>
    /\ UNCHANGED <<schedVars, pgtVars, mrAuxVars>>
    /\ IF w # "result"
       THEN WaitFails(t, w)
       ELSE /\ ctrl_op_ctx_map[mloc[t].opid] \in {"true", "false"}
            /\ ctrl_op_ctx_map' = [ctrl_op_ctx_map EXCEPT ![mloc[t].opid] = "absent"]
            /\ IF ctrl_op_ctx_map[mloc[t].opid] = "false"
               THEN Return(t, "DeviceReturnFailed", -1)
               ELSE /\ mpc' = [mpc EXCEPT ![t] = "dereg_pgt"]
                    /\ UNCHANGED <<mloc, lock, mret>>

\* dereg_mr: deregister_page_table (lock, dealloc, unlock), then the Mr is
\* removed from the PD's set and the slot is emptied
DeregPgt(t) ==
    /\ mpc[t] = "dereg_pgt"
    /\ lock["mr_pgt"] = 0
    /\ UNCHANGED <<lockPoisoned, nextOpId, ctrl_op_ctx_map, ctrlRing, issued, nMrCalls>>
    /\ UNCHANGED <<schedVars, mrAuxVars>>
    /\ LET ctx == mrTable[mloc[t].idx]
           cnt == DivCeil(ctx.len, ctx.pg_size)
       IN  IF lockPoisoned["mr_pgt"]
           THEN /\ UNCHANGED <<mrTable, pdPool, liveMrs, pgtVars>>
                /\ Return(t, "LockPoisoned", -1)
           ELSE /\ freeList' = MrPgtDealloc(freeList, ctx.pgt_offset, cnt)
                /\ allocated' = allocated (-) SetToBag({Blk(ctx.pgt_offset, cnt)})
                /\ pgtLast' = [op |-> "dealloc", n |-> cnt, res |-> ctx.pgt_offset]
                /\ IF mloc[t].key \notin pdPool[ctx.pd]
                   THEN /\ UNCHANGED <<mrTable, pdPool, liveMrs>>
                        /\ mret' = [op |-> "dereg_mr", res |-> "Invalid", key |-> -1,
                                    mismatch |-> mloc[t].mismatch,
                                    pushed |-> mloc[t].pushed,
                                    freed |-> TRUE,
                                    slotKept |-> TRUE, pdKept |-> TRUE]
                   ELSE /\ pdPool' = [pdPool EXCEPT ![ctx.pd] = @ \ {mloc[t].key}]
                        /\ mrTable' = [mrTable EXCEPT ![mloc[t].idx] = NoMr]
                        /\ liveMrs' = liveMrs \ {mloc[t].key}
                        /\ mret' = [op |-> "dereg_mr", res |-> "Ok", key |-> -1,
                                    mismatch |-> mloc[t].mismatch,
                                    pushed |-> mloc[t].pushed,
                                    freed |-> TRUE,
                                    slotKept |-> FALSE, pdKept |-> FALSE]
                /\ mpc' = [mpc EXCEPT ![t] = "idle"]
                /\ mloc' = [mloc EXCEPT ![t] = NoLoc]
                /\ lock' = Unlock(t)

SchedNext ==
    \/ \E t \in Threads, q \in Qpns, n \in 0..MaxBatch : PushSearch(t, q, n)
    \/ \E t \in Threads : PushInsert(t)
    \/ \E t \in Threads : Pop(t)

\* push and pop calls made by one thread, one after another
SchedSeqNext ==
    \/ \E q \in Qpns, n \in 0..MaxBatch : PushSearch(1, q, n)
    \/ PushInsert(1)
    \/ Pop(1)

(***************************************************************************)
(* ControlPoller and ControlPollerContext::poll_ctrl_thread                *)
(***************************************************************************)
\* the variants of ToHostCtrlRbDesc
CtrlKinds == {"UpdateMrTable", "UpdatePageTable", "QpManagement",
              "SetNetworkParam", "SetRawPacketReceiveMeta"}

\* the op ids of the submitted operations; StrayId is an op id no context is
\* installed for
CtrlIds == 1..MaxCtrlOps
StrayId == 0
RespIds == CtrlIds \cup {StrayId}

NoDesc == [kind |-> "none", op_id |-> -1, is_success |-> FALSE]

\* the kind of a response in the ring whose variant is not drawn yet
AnyKind == "any"

BoolRes(b) == IF b THEN "true" ELSE "false"

\* ctx_map.get(&op_id)
CtxGet(map, id) == IF id \in DOMAIN map /\ map[id] # "absent" THEN id ELSE -1

\* mutation of SetResult: a context is installed for an op id that has none
SetResultInstalls(map, id, ok) ==
    IF id \in DOMAIN map /\ map[id] \in {"pending", "absent"}
    THEN [map EXCEPT ![id] = BoolRes(ok)]
    ELSE map

\* if let Some(ctx) = ctx_map.get(&op_id) { ctx.set_result(is_success) }
\* else { error!("no ctrl cmd ctx found") }; a result that is set already is
\* kept (set_result returns the error that is logged)
SetResult(map, id, ok) ==
    IF CtxGet(map, id) = -1 THEN map
    ELSE IF map[id] = "pending" THEN [map EXCEPT ![id] = BoolRes(ok)]
    ELSE map

\* handle_ctrl_desc_update_mr_table
HandleUpdateMrTable(map, desc) == SetResult(map, desc.op_id, desc.is_success)

\* handle_ctrl_desc_update_page_table
HandleUpdatePageTable(map, desc) == SetResult(map, desc.op_id, desc.is_success)

\* mutation of HandleQpManagement: the result goes to the context of the
\* lowest op id that is pending, whatever the response's op id
HandleQpManagementFirstPending(map, desc) ==
    IF \E i \in CtrlIds : map[i] = "pending"
    THEN [map EXCEPT ![CHOOSE i \in CtrlIds :
                          map[i] = "pending"
                          /\ \A j \in CtrlIds : map[j] = "pending" => i <= j]
                        = BoolRes(desc.is_success)]
    ELSE map

\* handle_ctrl_desc_qp_management
HandleQpManagement(map, desc) == SetResult(map, desc.op_id, desc.is_success)

\* handle_ctrl_desc_network_management
HandleSetNetworkParam(map, desc) == SetResult(map, desc.op_id, desc.is_success)

\* handle_ctrl_desc_raw_packet_receive_meta
HandleSetRawPacketReceiveMeta(map, desc) == SetResult(map, desc.op_id, desc.is_success)

\* the match of poll_ctrl_thread
HandleDesc(map, desc) ==
    CASE desc.kind = "UpdateMrTable" -> HandleUpdateMrTable(map, desc)
      [] desc.kind = "UpdatePageTable" -> HandleUpdatePageTable(map, desc)
      [] desc.kind = "QpManagement" -> HandleQpManagement(map, desc)
      [] desc.kind = "SetNetworkParam" -> HandleSetNetworkParam(map, desc)
      [] desc.kind = "SetRawPacketReceiveMeta" ->
            HandleSetRawPacketReceiveMeta(map, desc)

\* mutation of StopRequested: the flag is never seen
StopNeverSeen(flag) == FALSE

\* stop_flag.load(Ordering::Relaxed)
StopRequested(flag) == flag

PollInit ==
    /\ to_host_ctrl_rb = <<>>
    /\ ringFailed = FALSE
    /\ ctrl_op_ctx_map = [i \in RespIds \cup OpIds |-> "absent"]
    /\ stop_flag = FALSE
    /\ ppc = "loop"
    /\ pdesc = NoDesc
    /\ dropPc = "live"
    /\ devAns = [i \in CtrlIds |-> "none"]
    /\ got = [i \in CtrlIds |-> "none"]
    /\ nCtrlOps = 0
    /\ afterStop = 0

\* a control operation is submitted: the next op id, its context installed,
\* its waiter waiting (the descriptor goes to the device)
SubmitCtrlOp ==
    /\ nCtrlOps < MaxCtrlOps
    /\ nCtrlOps' = nCtrlOps + 1
    /\ ctrl_op_ctx_map' = [ctrl_op_ctx_map EXCEPT ![nCtrlOps + 1] = "pending"]
    /\ got' = [got EXCEPT ![nCtrlOps + 1] = "waiting"]
    /\ UNCHANGED <<to_host_ctrl_rb, ringFailed, stop_flag, ppc, pdesc, dropPc,
                   devAns, afterStop>>
    /\ UNCHANGED <<schedVars, pgtVars, mrVars, udpVars, pureVars>>

\* the device answers an outstanding operation, in any order of the
\* operations, with is_success = ok; the variant of the response is drawn
\* when pop returns it
DevAnswer(id, ok) ==
    /\ got[id] # "none"
    /\ devAns[id] = "none"
    /\ Len(to_host_ctrl_rb) < MaxRing
    /\ devAns' = [devAns EXCEPT ![id] = BoolRes(ok)]
    /\ to_host_ctrl_rb' = Append(to_host_ctrl_rb,
                                 [kind |-> AnyKind, op_id |-> id, is_success |-> ok])
    /\ UNCHANGED <<ringFailed, ctrl_op_ctx_map, stop_flag, ppc, pdesc, dropPc,
                   got, nCtrlOps, afterStop>>
    /\ UNCHANGED <<schedVars, pgtVars, mrVars, udpVars, pureVars>>

\* a response arrives whose op id has no installed context
DevStray(ok) ==
    /\ Len(to_host_ctrl_rb) < MaxRing
    /\ to_host_ctrl_rb' = Append(to_host_ctrl_rb,
                                 [kind |-> AnyKind, op_id |-> StrayId,
                                  is_success |-> ok])
    /\ UNCHANGED <<ringFailed, ctrl_op_ctx_map, stop_flag, ppc, pdesc, dropPc,
                   devAns, got, nCtrlOps, afterStop>>
    /\ UNCHANGED <<schedVars, pgtVars, mrVars, udpVars, pureVars>>

\* the to-host control ring becomes unrecoverable
RingFail ==
    /\ ~ringFailed
    /\ ringFailed' = TRUE
    /\ UNCHANGED <<to_host_ctrl_rb, ctrl_op_ctx_map, stop_flag, ppc, pdesc, dropPc,
                   devAns, got, nCtrlOps, afterStop>>
    /\ UNCHANGED <<schedVars, pgtVars, mrVars, udpVars, pureVars>>

\* while !stop_flag.load(Ordering::Relaxed)
PollLoop ==
    /\ ppc = "loop"
    /\ ppc' = IF StopRequested(stop_flag) THEN "exited" ELSE "pop"
    /\ UNCHANGED <<to_host_ctrl_rb, ringFailed, ctrl_op_ctx_map, stop_flag, pdesc,
                   dropPc, devAns, got, nCtrlOps, afterStop>>
    /\ UNCHANGED <<schedVars, pgtVars, mrVars, udpVars, pureVars>>

\* ctx.to_host_ctrl_rb.pop(): Err makes the thread return; otherwise the pop
\* returns the oldest response, of variant k, once there is one
PollPop(k) ==
    /\ ppc = "pop"
    /\ ringFailed \/ to_host_ctrl_rb # <<>>
    /\ ~ringFailed => Head(to_host_ctrl_rb).kind \in {k, AnyKind}
    /\ IF ringFailed
       THEN /\ ppc' = "exited"
            /\ UNCHANGED <<to_host_ctrl_rb, pdesc>>
       ELSE /\ ppc' = "handle"
            /\ pdesc' = [Head(to_host_ctrl_rb) EXCEPT !.kind = k]
            /\ to_host_ctrl_rb' = Tail(to_host_ctrl_rb)
    /\ UNCHANGED <<ringFailed, ctrl_op_ctx_map, stop_flag, dropPc, devAns,
                   got, nCtrlOps, afterStop>>
    /\ UNCHANGED <<schedVars, pgtVars, mrVars, udpVars, pureVars>>

\* match desc { ... }: the handler of the descriptor's variant
PollHandle ==
    /\ ppc = "handle"
    /\ ctrl_op_ctx_map' = HandleDesc(ctrl_op_ctx_map, pdesc)
    /\ ppc' = "loop"
    /\ pdesc' = NoDesc
    /\ afterStop' = IF stop_flag THEN afterStop + 1 ELSE afterStop
    /\ UNCHANGED <<to_host_ctrl_rb, ringFailed, stop_flag, dropPc, devAns,
                   got, nCtrlOps>>
    /\ UNCHANGED <<schedVars, pgtVars, mrVars, udpVars, pureVars>>

\* wait_result of the operation with op id id: the result that was set is
\* taken and the context is removed
WaitResult(id) ==
    /\ got[id] = "waiting"
    /\ ctrl_op_ctx_map[id] \in {"true", "false"}
    /\ got' = [got EXCEPT ![id] = ctrl_op_ctx_map[id]]
    /\ ctrl_op_ctx_map' = [ctrl_op_ctx_map EXCEPT ![id] = "absent"]
    /\ UNCHANGED <<to_host_ctrl_rb, ringFailed, stop_flag, ppc, pdesc, dropPc,
                   devAns, nCtrlOps, afterStop>>
    /\ UNCHANGED <<schedVars, pgtVars, mrVars, udpVars, pureVars>>

\* ControlPoller::drop: self.stop_flag.store(true, Ordering::Relaxed)
DropStore ==
    /\ dropPc = "live"
    /\ stop_flag' = TRUE
    /\ dropPc' = "joining"
    /\ UNCHANGED <<to_host_ctrl_rb, ringFailed, ctrl_op_ctx_map, ppc, pdesc,
                   devAns, got, nCtrlOps, afterStop>>
    /\ UNCHANGED <<schedVars, pgtVars, mrVars, udpVars, pureVars>>

\* ControlPoller::drop: thread.join() returns once the thread has exited
DropJoin ==
    /\ dropPc = "joining"
    /\ ppc = "exited"
    /\ dropPc' = "joined"
    /\ UNCHANGED <<to_host_ctrl_rb, ringFailed, ctrl_op_ctx_map, stop_flag, ppc,
                   pdesc, devAns, got, nCtrlOps, afterStop>>
    /\ UNCHANGED <<schedVars, pgtVars, mrVars, udpVars, pureVars>>

\* the steps of the poller thread, of the waiters and of drop: the threads
\* the operating system keeps scheduling
PollThreadSteps ==
    \/ PollLoop
    \/ \E k \in CtrlKinds : PollPop(k)
    \/ PollHandle
    \/ DropJoin
    \/ \E id \in CtrlIds : WaitResult(id)

PollNext ==
    \/ SubmitCtrlOp
    \/ \E id \in CtrlIds, ok \in BOOLEAN : DevAnswer(id, ok)
    \/ \E ok \in BOOLEAN : DevStray(ok)
    \/ RingFail
    \/ PollLoop
    \/ \E k \in CtrlKinds : PollPop(k)
    \/ PollHandle
    \/ \E id \in CtrlIds : WaitResult(id)
    \/ DropStore
    \/ DropJoin

FillOutcomes == {"ok", "GetPhysAddrFailed", "AddressNotAlign"}

\* reg_mr and dereg_mr calls of the threads, the device, and the control
\* poller that publishes the device's responses; the poller runs for as
\* long as the Device that makes the calls lives and leaves its loop on a
\* ring error, the drop of ControlPoller is followed in PollNext
MrNext ==
    \/ \E t \in Threads, pd \in PdArgs, sz \in SizeArgs :
          RegMrCall(t, pd, sz[1], sz[2])
    \/ \E t \in Threads, key \in Keys : DeregMrCall(t, key)
    \/ \E t \in Threads : LockPd(t)
    \/ \E t \in Threads : RegFind(t)
    \/ \E t \in Threads : RptLock(t)
    \/ \E t \in Threads : RptAlloc(t)
    \/ \E t \in Threads, outcome \in FillOutcomes : RptFill(t, outcome)
    \/ \E t \in Threads, physOk, ctrlOk \in BOOLEAN : RptPush(t, physOk, ctrlOk)
    \/ \E t \in Threads, w \in WaitOutcomes : RptWait(t, w)
    \/ \E t \in Threads, r \in Keys, ctrlOk \in BOOLEAN : RegPush(t, r, ctrlOk)
    \/ \E t \in Threads, w \in WaitOutcomes : RegWait(t, w)
    \/ \E t \in Threads, ctrlOk \in BOOLEAN : DeregLookup(t, ctrlOk)
    \/ \E t \in Threads, w \in WaitOutcomes : DeregWait(t, w)
    \/ \E t \in Threads : DeregPgt(t)
    \/ \E i \in 1..MaxCtrlRing, ok \in BOOLEAN : DevRespond(i, ok)
    \/ PollLoop
    \/ \E k \in CtrlKinds : PollPop(k)
    \/ PollHandle
    \/ RingFail

\* the steps of the poller thread and of the threads whose wait_result has a
\* result to return: the threads the operating system keeps scheduling
MrThreadSteps ==
    \/ PollLoop
    \/ \E k \in CtrlKinds : PollPop(k)
    \/ PollHandle
    \/ \E t \in Threads : RptWait(t, "result")
    \/ \E t \in Threads : RegWait(t, "result")
    \/ \E t \in Threads : DeregWait(t, "result")

(***************************************************************************)
(* UDPReceiveAgent                                                         *)
(***************************************************************************)
\* size_of of the packed header structs: the sum of their fields
SizeofBTH == 1 + 1 + 2 + 4 + 4
SizeofRETH == 8 + 4 + 4
SizeofAETH == 4
SizeofImmediate == 4
SizeofIpv4Header == 1 + 1 + 2 + 2 + 2 + 1 + 1 + 2 + 4 + 4
SizeofUdpHeader == 2 + 2 + 2 + 2
SizeofIpUdpHeaders == SizeofIpv4Header + SizeofUdpHeader
SizeofCommonPacketHeader == SizeofIpUdpHeaders + SizeofBTH
ICRC_SIZE == 4

\* the four header layouts and their size_of
Layouts == {"BthReth", "BthRethImm", "BthDoubleReth", "BthAeth"}

SizeofLayout(l) ==
    CASE l = "BthReth" -> SizeofBTH + SizeofRETH
      [] l = "BthRethImm" -> SizeofBTH + SizeofRETH + SizeofImmediate
      [] l = "BthDoubleReth" -> SizeofBTH + SizeofRETH + SizeofRETH
      [] l = "BthAeth" -> SizeofBTH + SizeofAETH

\* usize arithmetic
UsizeMod == 2 ^ UsizeWidth

WrappingSub(a, b) == (a - b) % UsizeMod

\* the outcome of a usize computation that panicked
Panicked == 0 - 1

\* BTH::get_packet_real_length: payload_length - pad_cnt. The subtraction
\* overflows when pad_cnt exceeds payload_length: a build with overflow
\* checks panics, one without wraps around
GetPacketRealLength(pad_cnt, payload_length, overflow_checks) ==
    IF payload_length >= pad_cnt
    THEN payload_length - pad_cnt
    ELSE IF overflow_checks THEN Panicked
         ELSE WrappingSub(payload_length, pad_cnt)

\* <layout>::to_rdma_message(buf_size): the real payload length is computed
\* first, then the metadata is built from the header (new_from_packet), which
\* fails on a header it cannot convert
HeaderToRdmaMessage(layout, pad_cnt, meta_ok, buf_size, overflow_checks) ==
    LET real == GetPacketRealLength(pad_cnt,
                                    WrappingSub(buf_size, SizeofLayout(layout)),
                                    overflow_checks)
    IN  IF real = Panicked THEN "panic"
        ELSE IF meta_ok THEN "Ok" ELSE "Err"

\* PacketProcessor::to_rdma_message(buf): the header layout is chosen by the
\* opcode in the BTH; an opcode of no layout is an error
ToRdmaMessage(f, buf_size, overflow_checks) ==
    IF f.layout \notin Layouts THEN "Err"
    ELSE HeaderToRdmaMessage(f.layout, f.pad_cnt, f.meta_ok, buf_size,
                             overflow_checks)

\* a frame on the socket: its length, what is_icrc_valid finds ("valid",
\* "invalid", or "error"), the header layout its opcode selects ("none" for
\* an opcode of no layout), the pad count of its BTH and whether the header
\* fields convert to metadata
MkFrame(len, icrc, layout, pad_cnt, meta_ok) ==
    [len |-> len, icrc |-> icrc, layout |-> layout, pad_cnt |-> pad_cnt,
     meta_ok |-> meta_ok]

NoFrame == MkFrame(0, "none", "none", 0, FALSE)

\* frame lengths: headers of the layout, payload bytes, ICRC trailer
FrameLen(layout, payload) ==
    SizeofIpUdpHeaders + SizeofLayout(layout) + payload + ICRC_SIZE

Frames ==
    { MkFrame(SizeofCommonPacketHeader + ICRC_SIZE - 1, "valid", "BthReth", 0, TRUE),
      MkFrame(SizeofCommonPacketHeader + ICRC_SIZE, "valid", "none", 0, TRUE),
      MkFrame(SizeofCommonPacketHeader + ICRC_SIZE, "valid", "BthReth", 0, TRUE),
      MkFrame(FrameLen("BthReth", 0), "invalid", "BthReth", 0, TRUE),
      MkFrame(FrameLen("BthReth", 0), "error", "BthReth", 0, TRUE),
      MkFrame(FrameLen("BthReth", 0), "valid", "BthReth", 0, FALSE),
      MkFrame(FrameLen("BthReth", 0), "valid", "BthReth", 0, TRUE),
      MkFrame(FrameLen("BthReth", 0), "valid", "BthReth", 1, TRUE),
      MkFrame(FrameLen("BthAeth", 4), "valid", "BthAeth", 1, TRUE) }

UdpInit ==
    /\ socketQueue = <<>>
    /\ udpStop = FALSE
    /\ upc = "loop"
    /\ uframe = NoFrame
    /\ udpDropPc = "live"
    /\ delivered = NoFrame

\* a frame arrives on the socket; it is lost when the receive buffer is full
FrameArrives(f) ==
    /\ socketQueue' = IF Len(socketQueue) < MaxSock
                      THEN Append(socketQueue, f)
                      ELSE socketQueue
    /\ UNCHANGED <<udpStop, upc, uframe, udpDropPc, delivered>>
    /\ UNCHANGED <<schedVars, pgtVars, mrVars, pollVars, pureVars>>

\* while !thread_stop_flag.load(Ordering::Relaxed)
UdpLoop ==
    /\ upc = "loop"
    /\ upc' = IF udpStop THEN "exited" ELSE "recv"
    /\ UNCHANGED <<socketQueue, udpStop, uframe, udpDropPc, delivered>>
    /\ UNCHANGED <<schedVars, pgtVars, mrVars, pollVars, pureVars>>

\* socket.recv_from(&mut buf) returns Ok: the socket is a blocking one with no
\* read timeout, the call returns once a frame is there
UdpRecv ==
    /\ upc = "recv"
    /\ socketQueue # <<>>
    /\ uframe' = Head(socketQueue)
    /\ socketQueue' = Tail(socketQueue)
    /\ upc' = "process"
    /\ UNCHANGED <<udpStop, udpDropPc, delivered>>
    /\ UNCHANGED <<schedVars, pgtVars, mrVars, pollVars, pureVars>>

\* socket.recv_from(&mut buf) returns Err (the call was interrupted): the
\* `if let Ok` is skipped
UdpRecvErr ==
    /\ upc = "recv"
    /\ upc' = "loop"
    /\ UNCHANGED <<socketQueue, udpStop, uframe, udpDropPc, delivered>>
    /\ UNCHANGED <<schedVars, pgtVars, mrVars, pollVars, pureVars>>

\* what the body of the `if let Ok` does with a frame: "short" (length
\* check), "icrc" (ICRC check), "malformed" (to_rdma_message is an Err),
\* "recv" (receiver.recv(&mut message) is called) or "panic"
FrameOutcome(f, overflow_checks) ==
    IF f.len < SizeofCommonPacketHeader + 4 THEN "short"
    ELSE IF f.icrc # "valid" THEN "icrc"
    ELSE LET msg == ToRdmaMessage(f, f.len - SizeofIpUdpHeaders - ICRC_SIZE,
                                  overflow_checks)
         IN  CASE msg = "Ok" -> "recv"
               [] msg = "Err" -> "malformed"
               [] msg = "panic" -> "panic"

\* the body of the `if let Ok`: length check, ICRC check, to_rdma_message,
\* receiver.recv(&mut message). A panic ends the listen thread
UdpProcess ==
    /\ upc = "process"
    /\ \E overflow_checks \in BOOLEAN :
         LET out == FrameOutcome(uframe, overflow_checks)
         IN  /\ delivered' = IF out = "recv" THEN uframe ELSE NoFrame
             /\ upc' = IF out = "panic" THEN "panicked" ELSE "loop"
    /\ uframe' = NoFrame
    /\ UNCHANGED <<socketQueue, udpStop, udpDropPc>>
    /\ UNCHANGED <<schedVars, pgtVars, mrVars, pollVars, pureVars>>

\* UDPReceiveAgent::drop: self.stop_flag.store(true, Ordering::Relaxed)
UdpDropStore ==
    /\ udpDropPc = "live"
    /\ udpStop' = TRUE
    /\ udpDropPc' = "joining"
    /\ UNCHANGED <<socketQueue, upc, uframe, delivered>>
    /\ UNCHANGED <<schedVars, pgtVars, mrVars, pollVars, pureVars>>

\* UDPReceiveAgent::drop: thread.join() returns once the thread has ended:
\* Ok after it left the loop, Err (and drop panics) after it panicked
UdpDropJoin ==
    /\ udpDropPc = "joining"
    /\ upc \in {"exited", "panicked"}
    /\ udpDropPc' = IF upc = "exited" THEN "joined" ELSE "panicked"
    /\ UNCHANGED <<socketQueue, udpStop, upc, uframe, delivered>>
    /\ UNCHANGED <<schedVars, pgtVars, mrVars, pollVars, pureVars>>

\* the steps of the listen thread and of drop's join: the threads the
\* operating system keeps scheduling
UdpThreadSteps ==
    \/ UdpLoop
    \/ UdpRecv
    \/ UdpProcess
    \/ UdpDropJoin

UdpNext ==
    \/ \E f \in Frames : FrameArrives(f)
    \/ UdpLoop
    \/ UdpRecv
    \/ UdpRecvErr
    \/ UdpProcess
    \/ UdpDropStore
    \/ UdpDropJoin

(***************************************************************************)
(* packet.rs: bytes                                                        *)
(***************************************************************************)
\* a & b and a | b on unsigned integers
RECURSIVE BitAnd(_, _)
BitAnd(a, b) ==
    IF a = 0 \/ b = 0 THEN 0
    ELSE (a % 2) * (b % 2) + 2 * BitAnd(a \div 2, b \div 2)

BitOr(a, b) == a + b - BitAnd(a, b)

\* !a, a << n and a >> n on a u8
NotU8(a) == 255 - a

ShlU8(a, n) == (a * (2 ^ n)) % 256

ShrU8(a, n) == a \div (2 ^ n)

\* v as u8
AsU8(v) == v % 256

\* to_be_bytes of an n-byte unsigned integer, from_be_bytes
RECURSIVE ToBeBytes(_, _)
ToBeBytes(v, n) ==
    IF n = 0 THEN <<>> ELSE Append(ToBeBytes(v \div 256, n - 1), v % 256)

RECURSIVE FromBeBytes(_)
FromBeBytes(bs) ==
    IF bs = <<>> THEN 0
    ELSE FromBeBytes(SubSeq(bs, 1, Len(bs) - 1)) * 256 + bs[Len(bs)]

(***************************************************************************)
(* packet.rs: BTH                                                          *)
(***************************************************************************)
BTH_OPCODE_MASK == 31
BTH_TRANSACTION_TYPE_MASK == 224
BTH_TRANSACTION_TYPE_SHIFT == 5
BTH_DESTINATION_QPN_MASK == 16777215
BTH_FLAGS_SOLICITED_MASK == 128
BTH_FLAGS_PAD_CNT_MASK == 96
BTH_FLAGS_PAD_CNT_SHIFT == 5
BTH_ACK_REQ_MASK == 128
BTH_PSN_MASK == 16777215

\* struct BTH with every byte b
FilledBTH(b) ==
    [tran_type_and_opcode |-> b, flags |-> b, pkey |-> <<b, b>>,
     destination_qpn |-> <<b, b, b, b>>, psn |-> <<b, b, b, b>>]

GetTransactionType(h) ==
    ShrU8(BitAnd(h.tran_type_and_opcode, BTH_TRANSACTION_TYPE_MASK),
          BTH_TRANSACTION_TYPE_SHIFT)

GetOpcode(h) == BitAnd(h.tran_type_and_opcode, BTH_OPCODE_MASK)

GetSolicited(h) == BitAnd(h.flags, BTH_FLAGS_SOLICITED_MASK) # 0

GetPadCnt(h) ==
    ShrU8(BitAnd(h.flags, BTH_FLAGS_PAD_CNT_MASK), BTH_FLAGS_PAD_CNT_SHIFT)

GetPkey(h) == FromBeBytes(h.pkey)

GetDestinationQpn(h) ==
    FromBeBytes(<<0, h.destination_qpn[2], h.destination_qpn[3],
                  h.destination_qpn[4]>>)

GetAckReq(h) == BitAnd(h.psn[1], BTH_ACK_REQ_MASK) # 0

GetPsn(h) == FromBeBytes(<<0, h.psn[2], h.psn[3], h.psn[4]>>)

SetOpcodeAndType(h, opcode, tran_type) ==
    [h EXCEPT !.tran_type_and_opcode =
        BitOr(ShlU8(tran_type, BTH_TRANSACTION_TYPE_SHIFT), opcode)]

SetFlagsSolicited(h, is_solicited) ==
    [h EXCEPT !.flags =
        IF is_solicited
        THEN BitOr(h.flags, BTH_FLAGS_SOLICITED_MASK)
        ELSE BitAnd(h.flags, NotU8(BTH_FLAGS_SOLICITED_MASK))]

SetPadCnt(h, pad_cnt) ==
    [h EXCEPT !.flags =
        BitOr(BitAnd(h.flags, NotU8(BTH_FLAGS_PAD_CNT_MASK)),
              ShlU8(AsU8(pad_cnt), BTH_FLAGS_PAD_CNT_SHIFT))]

SetPkey(h, pkey) == [h EXCEPT !.pkey = ToBeBytes(pkey, 2)]

SetDestinationQpn(h, qpn) ==
    [h EXCEPT !.destination_qpn =
        ToBeBytes(BitAnd(qpn, BTH_DESTINATION_QPN_MASK), 4)]

SetAckReq(h, ack_req) ==
    [h EXCEPT !.psn[1] =
        IF ack_req
        THEN BitOr(h.psn[1], BTH_ACK_REQ_MASK)
        ELSE BitAnd(h.psn[1], NotU8(BTH_ACK_REQ_MASK))]

\* mutation of SetPsn: the byte that holds ack_req is not put back
SetPsnOverAckReq(h, psn) ==
    [h EXCEPT !.psn = ToBeBytes(BitAnd(psn, BTH_PSN_MASK), 4)]

SetPsn(h, psn) ==
    LET ack_req == h.psn[1]
        new == ToBeBytes(BitAnd(psn, BTH_PSN_MASK), 4)
    IN  [h EXCEPT !.psn = [new EXCEPT ![1] = ack_req]]

\* fill_ecn_and_resv6 (used for the icrc check): the byte above the 24-bit
\* destination qpn is set to 0xff
FillEcnAndResv6(h) == [h EXCEPT !.destination_qpn[1] = 255]

\* the values the setters are called with. Opcodes and transaction types
\* are the discriminants of ToHostWorkRbDescOpcode (RdmaWriteFirst,
\* Acknowledge) and of
\* ToHostWorkRbDescTransType (Rc, Xrc)
OpcodeArgs == {6, 17}
TransTypeArgs == {0, 5}
PkeyArgs == {4660}
QpnArgs == {1, 33554431}
PsnArgs == {1, 16777218}
PadCntArgs == 0..3

\* what a buffer holds before the setters are called
BufferFills == {0, 255, 165}

NoCall == <<"none", 0>>

BthInit ==
    /\ bth = FilledBTH(0)
    /\ bthLast = NoCall

\* BTH::from_bytes(&buf) on a buffer of any contents
BthFromBytes(b) ==
    /\ bthLast = NoCall
    /\ bth' = FilledBTH(b)
    /\ bthLast' = <<"from_bytes", b>>
    /\ UNCHANGED <<schedVars, pgtVars, mrVars, pollVars, udpVars, utilVars,
                   aethVars, codecVars>>

\* a call of one of the setters on the BTH
BthSet(name, arg, new) ==
    /\ bthLast # NoCall
    /\ bth' = new
    /\ bthLast' = <<name, arg>>
    /\ UNCHANGED <<schedVars, pgtVars, mrVars, pollVars, udpVars, utilVars,
                   aethVars, codecVars>>

BthSetOpcodeAndType ==
    \E opcode \in OpcodeArgs, tran_type \in TransTypeArgs :
        BthSet("set_opcode_and_type", <<opcode, tran_type>>,
               SetOpcodeAndType(bth, opcode, tran_type))

BthSetFlagsSolicited ==
    \E b \in BOOLEAN : BthSet("set_flags_solicited", b, SetFlagsSolicited(bth, b))

BthSetPadCnt ==
    \E c \in PadCntArgs : BthSet("set_pad_cnt", c, SetPadCnt(bth, c))

BthSetPkey == \E k \in PkeyArgs : BthSet("set_pkey", k, SetPkey(bth, k))

BthSetDestinationQpn ==
    \E q \in QpnArgs :
        BthSet("set_destination_qpn", q, SetDestinationQpn(bth, q))

BthSetAckReq == \E b \in BOOLEAN : BthSet("set_ack_req", b, SetAckReq(bth, b))

BthSetPsn == \E n \in PsnArgs : BthSet("set_psn", n, SetPsn(bth, n))

BthFillEcnAndResv6 == BthSet("fill_ecn_and_resv6", 0, FillEcnAndResv6(bth))

BthNext ==
    \/ \E b \in BufferFills : BthFromBytes(b)
    \/ BthSetOpcodeAndType
    \/ BthSetFlagsSolicited
    \/ BthSetPadCnt
    \/ BthSetPkey
    \/ BthSetDestinationQpn
    \/ BthSetAckReq
    \/ BthSetPsn
    \/ BthFillEcnAndResv6

(***************************************************************************)
(* packet.rs: AETH                                                         *)
(***************************************************************************)
MAX_AETH_CODE == 4
AETH_CODE_MASK == 96
AETH_CODE_SHIFT == 5
AETH_VALUE_MASK == 31
AETH_MSN_MASK == 16777215

\* struct AETH { value: [u8; 4] } with every byte b
FilledAETH(b) == <<b, b, b, b>>

GetAethCode(a) == ShrU8(BitAnd(a[1], AETH_CODE_MASK), AETH_CODE_SHIFT)

GetAethValue(a) == BitAnd(a[1], AETH_VALUE_MASK)

GetMsn(a) == FromBeBytes(<<0, a[2], a[3], a[4]>>)

SetAethCodeAndValue(a, code, value) ==
    [a EXCEPT ![1] = BitOr(ShlU8(code % MAX_AETH_CODE, AETH_CODE_SHIFT), value)]

\* mutation of SetMsn: the byte that holds code and value is not put back
SetMsnOverCode(a, msn) == ToBeBytes(BitAnd(msn, AETH_MSN_MASK), 4)

SetMsn(a, msn) ==
    LET new_value == ToBeBytes(BitAnd(msn, AETH_MSN_MASK), 4)
    IN  [new_value EXCEPT ![1] = a[1]]

\* the values the AETH setters are called with: every u8 code, every 5-bit
\* value
AethCodeArgs == 0..(2 ^ 8 - 1)
AethValueArgs == 0..(2 ^ 5 - 1)
MsnArgs == {1193046, 33554431}

AethInit ==
    /\ aeth = <<>>
    /\ aethCv = <<>>
    /\ aethMsn = <<>>

\* AETH::from_bytes(&buf) on a buffer of any contents
AethFromBytes(b) ==
    /\ aeth = <<>>
    /\ aeth' = FilledAETH(b)
    /\ UNCHANGED <<aethCv, aethMsn>>
    /\ UNCHANGED <<schedVars, pgtVars, mrVars, pollVars, udpVars, utilVars,
                   bthVars, codecVars>>

\* the call of set_aeth_code_and_value
AethSetCodeAndValue(code, value) ==
    /\ aeth # <<>>
    /\ aethCv = <<>>
    /\ aeth' = SetAethCodeAndValue(aeth, code, value)
    /\ aethCv' = <<code, value>>
    /\ UNCHANGED aethMsn
    /\ UNCHANGED <<schedVars, pgtVars, mrVars, pollVars, udpVars, utilVars,
                   bthVars, codecVars>>

\* the call of set_msn
AethSetMsn(msn) ==
    /\ aeth # <<>>
    /\ aethMsn = <<>>
    /\ aeth' = SetMsn(aeth, msn)
    /\ aethMsn' = <<msn>>
    /\ UNCHANGED aethCv
    /\ UNCHANGED <<schedVars, pgtVars, mrVars, pollVars, udpVars, utilVars,
                   bthVars, codecVars>>

\* every value of the u8 parameter `value`, and codes around the multiples
\* of MAX_AETH_CODE
AethU8ValueArgs == 0..(2 ^ 8 - 1)
AethCodeSamples == {0, 1, 2, 3, MAX_AETH_CODE, 2 ^ 8 - 1}

\* set_aeth_code_and_value called with any u8 value
AethU8Next ==
    \/ \E b \in BufferFills : AethFromBytes(b)
    \/ \E code \in AethCodeSamples, value \in AethU8ValueArgs :
           AethSetCodeAndValue(code, value)

AethNext ==
    \/ \E b \in BufferFills : AethFromBytes(b)
    \/ \E code \in AethCodeArgs, value \in AethValueArgs :
           AethSetCodeAndValue(code, value)
    \/ \E msn \in MsnArgs : AethSetMsn(msn)

(***************************************************************************)
(* packet.rs: RETH, Immediate and the four header layouts                  *)
(***************************************************************************)
\* struct RETH with every byte zero
ZeroRETH ==
    [va |-> <<0, 0, 0, 0, 0, 0, 0, 0>>, rkey |-> <<0, 0, 0, 0>>,
     dlen |-> <<0, 0, 0, 0>>]

GetVa(r) == FromBeBytes(r.va)

GetRkey(r) == FromBeBytes(r.rkey)

GetDlen(r) == FromBeBytes(r.dlen)

SetVa(r, va) == [r EXCEPT !.va = ToBeBytes(va, 8)]

SetRkey(r, rkey) == [r EXCEPT !.rkey = ToBeBytes(rkey, 4)]

SetDlen(r, dlen) == [r EXCEPT !.dlen = ToBeBytes(dlen, 4)]

\* mutation of SetFromRethHeader: rkey and len are written to each other's
\* bytes
SetFromRethHeaderSwapped(r, reth) ==
    SetDlen(SetRkey(SetVa(r, reth.va), reth.len), reth.rkey)

\* RETH::set_from_reth_header
SetFromRethHeader(r, reth) ==
    SetDlen(SetRkey(SetVa(r, reth.va), reth.rkey), reth.len)

\* Immediate::get, Immediate::set
ImmediateGet(i) == FromBeBytes(i)

ImmediateSet(i, imm) == ToBeBytes(imm, 4)

\* BTH::set_from_common_meta
SetFromCommonMeta(h, common_meta, pad_cnt) ==
    LET h1 == SetOpcodeAndType(h, common_meta.opcode, common_meta.tran_type)
        h2 == SetFlagsSolicited(h1, common_meta.solicited)
        h3 == SetPadCnt(h2, pad_cnt)
        h4 == SetDestinationQpn(h3, common_meta.dqpn)
        h5 == SetAckReq(h4, common_meta.ack_req)
        h6 == SetPsn(h5, common_meta.psn)
    IN  SetPkey(h6, common_meta.pkey)

\* a zeroed buffer seen as a header of the layout
ZeroHeader(layout) ==
    CASE layout = "BthReth" -> [bth |-> FilledBTH(0), reth |-> ZeroRETH]
      [] layout = "BthRethImm" ->
            [bth |-> FilledBTH(0), reth |-> ZeroRETH, imm |-> <<0, 0, 0, 0>>]
      [] layout = "BthDoubleReth" ->
            [bth |-> FilledBTH(0), reth |-> ZeroRETH, secondary_reth |-> ZeroRETH]
      [] layout = "BthAeth" -> [bth |-> FilledBTH(0), aeth |-> FilledAETH(0)]

\* PayloadInfo::get_pad_cnt: the bytes that pad the payload to a multiple of
\* RDMA_PAYLOAD_ALIGNMENT
RDMA_PAYLOAD_ALIGNMENT == 4

PayloadPadCnt(len) ==
    (RDMA_PAYLOAD_ALIGNMENT - (len % RDMA_PAYLOAD_ALIGNMENT)) % RDMA_PAYLOAD_ALIGNMENT

\* mutation of SetFromRdmaMessage: the metadata is not looked at
SetFromRdmaMessageUnchecked(layout, hdr, message) ==
    [ok |-> TRUE, size |-> SizeofLayout(layout), hdr |-> hdr]

\* <layout>::set_from_rdma_message(message): Ok(size_of::<Self>()) or
\* Err(InvalidMetadataType), and the header as the call leaves it
SetFromRdmaMessage(layout, hdr, message) ==
    LET meta == message.meta_data
        pad_cnt == PayloadPadCnt(message.payload_len)
        Err(h) == [ok |-> FALSE, size |-> 0, hdr |-> h]
        Ok(h) == [ok |-> TRUE, size |-> SizeofLayout(layout), hdr |-> h]
    IN  IF layout = "BthAeth"
        THEN IF meta.kind # "Acknowledge" THEN Err(hdr)
             ELSE LET b == SetFromCommonMeta(hdr.bth, meta.common_meta, pad_cnt)
                      a1 == SetAethCodeAndValue(hdr.aeth, meta.aeth_code,
                                                meta.aeth_value)
                  IN  Ok([hdr EXCEPT !.bth = b, !.aeth = SetMsn(a1, meta.msn)])
        ELSE IF meta.kind # "General" THEN Err(hdr)
        ELSE LET b == SetFromCommonMeta(hdr.bth, meta.common_meta, pad_cnt)
                 h1 == [hdr EXCEPT !.bth = b,
                                   !.reth = SetFromRethHeader(hdr.reth, meta.reth)]
             IN  CASE layout = "BthReth" -> Ok(h1)
                   [] layout = "BthDoubleReth" ->
                        IF meta.secondary_reth = <<>> THEN Err(h1)
                        ELSE Ok([h1 EXCEPT !.secondary_reth =
                                    SetFromRethHeader(hdr.secondary_reth,
                                                      meta.secondary_reth[1])])
                   [] layout = "BthRethImm" ->
                        IF meta.imm = <<>> THEN Err(h1)
                        ELSE Ok([h1 EXCEPT !.imm = ImmediateSet(hdr.imm, meta.imm[1])])

\* RdmaMessageMetaCommon, RethHeader, RdmaGeneralMeta and AethHeader built
\* from the headers of a packet (new_from_packet): every field is what the
\* getter of the header reads
CommonMetaFromBth(h) ==
    [tran_type |-> GetTransactionType(h), opcode |-> GetOpcode(h),
     solicited |-> GetSolicited(h), pkey |-> GetPkey(h),
     dqpn |-> GetDestinationQpn(h), ack_req |-> GetAckReq(h),
     psn |-> GetPsn(h)]

RethHeaderFromReth(r) == [va |-> GetVa(r), rkey |-> GetRkey(r), len |-> GetDlen(r)]

NewFromPacket(layout, hdr) ==
    IF layout = "BthAeth"
    THEN [kind |-> "Acknowledge",
          common_meta |-> CommonMetaFromBth(hdr.bth),
          aeth_code |-> GetAethCode(hdr.aeth),
          aeth_value |-> GetAethValue(hdr.aeth),
          msn |-> GetMsn(hdr.aeth)]
    ELSE [kind |-> "General",
          common_meta |-> CommonMetaFromBth(hdr.bth),
          reth |-> RethHeaderFromReth(hdr.reth),
          imm |-> IF layout = "BthRethImm"
                  THEN <<ImmediateGet(hdr.imm)>> ELSE <<>>,
          secondary_reth |-> IF layout = "BthDoubleReth"
                             THEN <<RethHeaderFromReth(hdr.secondary_reth)>>
                             ELSE <<>>]

\* the header layout of an opcode: BTH+RETH for the writes and the read
\* responses, BTH+RETH+Imm for the writes with immediate, BTH+RETH+RETH for
\* the read request, BTH+AETH for the acknowledge
LayoutOfOpcode(opcode) ==
    CASE opcode \in {9, 11} -> "BthRethImm"
      [] opcode = 12 -> "BthDoubleReth"
      [] opcode = 17 -> "BthAeth"
      [] OTHER -> "BthReth"

\* the messages the round trips start from
CommonMetas ==
    [tran_type : TransTypeArgs, opcode : {6, 11, 12, 17}, solicited : BOOLEAN,
     pkey : PkeyArgs, dqpn : {1, 16777215}, ack_req : BOOLEAN,
     psn : {1193046}]

RethHeaders == [va : {1, 305419896}, rkey : {305419896}, len : {4096}]

GeneralMetas ==
    [kind : {"General"}, common_meta : CommonMetas,
     reth : RethHeaders, imm : {<<>>, <<16909060>>},
     secondary_reth : {<<>>, <<[va |-> 2, rkey |-> 19088743, len |-> 512]>>}]

AckMetas ==
    [kind : {"Acknowledge"}, common_meta : CommonMetas,
     aeth_code : 0..3, aeth_value : {5, 31}, msn : {1193046}]

Messages ==
    [meta_data : GeneralMetas \cup AckMetas, payload_len : {0, 5}]

NoMessage == [meta_data |-> [kind |-> "none"], payload_len |-> 0]

CodecInit ==
    /\ codecPc = "idle"
    /\ codecMsg = NoMessage
    /\ codecHdr = <<>>
    /\ codecRet = 0
    /\ codecParsed = NoMessage
    /\ codecHdr2 = <<>>
    /\ codecRefused = {}

\* what a refused call was given: the header layout it was made on, and the
\* kind of the metadata or the optional field the layout needs and the
\* metadata lacks
RefusedCall(layout, meta) ==
    <<layout,
      IF meta.kind = "Acknowledge" THEN "Acknowledge"
      ELSE IF layout = "BthRethImm" /\ meta.imm = <<>> THEN "no imm"
      ELSE IF layout = "BthDoubleReth" /\ meta.secondary_reth = <<>>
      THEN "no secondary_reth"
      ELSE "General">>

\* set_from_rdma_message(&mut buf, message) on a zeroed buffer, the header
\* layout being that of the message's opcode
CodecWrite(message) ==
    /\ codecPc = "idle"
    /\ LET layout == LayoutOfOpcode(message.meta_data.common_meta.opcode)
           r == SetFromRdmaMessage(layout, ZeroHeader(layout), message)
       IN  /\ codecMsg' = message
           /\ codecHdr' = r.hdr
           /\ codecRet' = r.size
           /\ codecPc' = IF r.ok THEN "written" ELSE "failed"
           /\ codecRefused' = IF r.ok THEN codecRefused
                               ELSE codecRefused
                                      \cup {RefusedCall(layout, message.meta_data)}
    /\ UNCHANGED <<codecParsed, codecHdr2>>
    /\ UNCHANGED <<schedVars, pgtVars, mrVars, pollVars, udpVars, utilVars,
                   bthVars, aethVars>>

\* to_rdma_message(buf) on the header and the padded payload behind it
CodecParse ==
    /\ codecPc = "written"
    /\ \E overflow_checks \in BOOLEAN :
         LET layout == LayoutOfOpcode(GetOpcode(codecHdr.bth))
             pad_cnt == GetPadCnt(codecHdr.bth)
             buf_size == SizeofLayout(layout) + codecMsg.payload_len
                         + PayloadPadCnt(codecMsg.payload_len)
             real == GetPacketRealLength(pad_cnt,
                                         WrappingSub(buf_size, SizeofLayout(layout)),
                                         overflow_checks)
         IN  IF real = Panicked
             THEN /\ codecPc' = "failed"
                  /\ UNCHANGED codecParsed
             ELSE /\ codecPc' = "parsed"
                  /\ codecParsed' = [meta_data |-> NewFromPacket(layout, codecHdr),
                                     payload_len |-> real]
    /\ UNCHANGED <<codecMsg, codecHdr, codecRet, codecHdr2, codecRefused>>
    /\ UNCHANGED <<schedVars, pgtVars, mrVars, pollVars, udpVars, utilVars,
                   bthVars, aethVars>>

\* set_from_rdma_message(&mut new_buf, &message) of the parsed message on a
\* zeroed buffer
CodecRewrite ==
    /\ codecPc = "parsed"
    /\ LET layout == LayoutOfOpcode(codecParsed.meta_data.common_meta.opcode)
           r == SetFromRdmaMessage(layout, ZeroHeader(layout), codecParsed)
       IN  /\ codecHdr2' = r.hdr
           /\ codecPc' = IF r.ok THEN "rewritten" ELSE "failed"
    /\ UNCHANGED <<codecMsg, codecHdr, codecRet, codecParsed, codecRefused>>
    /\ UNCHANGED <<schedVars, pgtVars, mrVars, pollVars, udpVars, utilVars,
                   bthVars, aethVars>>

\* the caller is done with the message, whether it was refused or went
\* through the round trip, and takes a zeroed buffer for the next one
CodecDone ==
    /\ codecPc \in {"failed", "rewritten"}
    /\ codecPc' = "idle"
    /\ codecMsg' = NoMessage
    /\ codecHdr' = <<>>
    /\ codecRet' = 0
    /\ codecParsed' = NoMessage
    /\ codecHdr2' = <<>>
    /\ UNCHANGED codecRefused
    /\ UNCHANGED <<schedVars, pgtVars, mrVars, pollVars, udpVars, utilVars,
                   bthVars, aethVars>>

CodecNext ==
    \/ \E message \in Messages : CodecWrite(message)
    \/ CodecParse
    \/ CodecRewrite
    \/ CodecDone

(***************************************************************************)
(* mr.rs: register_page_table up to the end of its page loop               *)
(***************************************************************************)
PAGE_SIZE == 2 ^ PageShift

\* adaptor.get_phys_addr(va): the pages are mapped pa_off bytes above their
\* virtual address; a negative pa_off stands for a translation that fails
GetPhysAddr(va, pa_off) == va + pa_off

\* a & (PAGE_SIZE - 1) == 0
AlignedToPage(a) == BitAnd(a, PAGE_SIZE - 1) = 0

\* the for loop of register_page_table over pgt_idx in from..pgte_cnt-1:
\* <<"Ok">> when every page passed, else the first error
RECURSIVE RegisterPageTableLoop(_, _, _, _, _)
RegisterPageTableLoop(addr, pg_size, pa_off, pgt_idx, pgte_cnt) ==
    IF pgt_idx >= pgte_cnt THEN <<"Ok">>
    ELSE LET va == addr + pg_size * pgt_idx
             pa == GetPhysAddr(va, pa_off)
         IN  IF pa_off < 0 THEN <<"GetPhysAddrFailed">>
             ELSE IF ~AlignedToPage(va) THEN <<"AddressNotAlign", "va", va>>
             ELSE IF ~AlignedToPage(pa) THEN <<"AddressNotAlign", "pa", pa>>
             ELSE RegisterPageTableLoop(addr, pg_size, pa_off, pgt_idx + 1,
                                        pgte_cnt)

\* register_page_table(addr, length, pg_size) up to the end of its loop, on
\* the device as it is: self.0.mr_pgt.lock(), pgte_cnt, mr_pgt.alloc(pgte_cnt)
\* and the loop; the first error, or <<"Ok">>
RegisterPageTableFill(addr, length, pg_size, pa_off) ==
    LET pgte_cnt == DivCeil(length, pg_size)
    IN  IF lockPoisoned["mr_pgt"] THEN <<"LockPoisoned">>
        ELSE IF ~MrPgtAlloc(freeList, pgte_cnt).ok THEN <<"ResourceNoAvailable">>
        ELSE RegisterPageTableLoop(addr, pg_size, pa_off, 0, pgte_cnt)

\* addresses, lengths and distances: multiples of half a PAGE_SIZE; page
\* sizes: half a PAGE_SIZE, PAGE_SIZE and twice PAGE_SIZE
HalfPages == {h * (PAGE_SIZE \div 2) : h \in 0..MaxFillHalfPages}
PgSizeArgs == {PAGE_SIZE \div 2, PAGE_SIZE, 2 * PAGE_SIZE}
PaOffArgs == HalfPages \cup {0 - 1}

\* the call of register_page_table by thread 1, up to the end of the loop:
\* the entries mr_pgt.alloc handed out stay allocated whatever the loop
\* ends with; the guard of mr_pgt is dropped by an error return and is still
\* held when the loop has ended with Ok
CallRegisterPageTableFill(addr, length, pg_size, pa_off) ==
    /\ fillArgs = <<>>
    /\ lock["mr_pgt"] = 0
    /\ fillArgs' = <<addr, length, pg_size, pa_off>>
    /\ fillRes' = RegisterPageTableFill(addr, length, pg_size, pa_off)
    /\ LET pgte_cnt == DivCeil(length, pg_size)
           r == MrPgtAlloc(freeList, pgte_cnt)
       IN  IF lockPoisoned["mr_pgt"]
           THEN UNCHANGED pgtVars
           ELSE /\ pgtLast' = [op |-> "alloc", n |-> pgte_cnt,
                               res |-> IF r.ok THEN r.idx ELSE -1]
                /\ IF r.ok
                   THEN /\ freeList' = r.list
                        /\ allocated' = allocated (+) SetToBag({Blk(r.idx, pgte_cnt)})
                   ELSE UNCHANGED <<freeList, allocated>>
    /\ lock' = IF fillRes' = <<"Ok">> THEN [lock EXCEPT !["mr_pgt"] = 1] ELSE lock
    /\ UNCHANGED <<pktArgs, pktCnt, lenArgs, lenRes>>
    /\ UNCHANGED <<mrTable, pdPool, lockPoisoned, mpc, mloc, nextOpId,
                   ctrlRing, mret, issued, liveMrs, nMrCalls>>
    /\ UNCHANGED <<schedVars, pollVars, udpVars, bthVars, aethVars, codecVars>>

FillNext ==
    \E addr \in HalfPages, length \in HalfPages, pg_size \in PgSizeArgs,
       pa_off \in PaOffArgs :
        CallRegisterPageTableFill(addr, length, pg_size, pa_off)

(***************************************************************************)
(* packet.rs: the payload length of to_rdma_message                        *)
(***************************************************************************)
\* <layout>::to_rdma_message(buf_size), first statement:
\* self.bth.get_packet_real_length(buf_size.wrapping_sub(size_of::<Self>()))
PayloadLength(layout, pad_cnt, buf_size, overflow_checks) ==
    GetPacketRealLength(pad_cnt, WrappingSub(buf_size, SizeofLayout(layout)),
                        overflow_checks)

\* the call of to_rdma_message on a buffer of buf_size bytes whose BTH has
\* pad_cnt in its flags, by a build with or without overflow checks
CallToRdmaMessage(layout, buf_size, pad_cnt, overflow_checks) ==
    /\ lenArgs = <<>>
    /\ lenArgs' = <<layout, buf_size, pad_cnt>>
    /\ lenRes' = PayloadLength(layout, pad_cnt, buf_size, overflow_checks)
    /\ UNCHANGED <<pktArgs, pktCnt, fillArgs, fillRes>>
    /\ UNCHANGED <<schedVars, pgtVars, mrVars, pollVars, udpVars, bthVars,
                   aethVars, codecVars>>

LenNext ==
    \E layout \in Layouts, buf_size \in 0..MaxBufSize, pad_cnt \in PadCntArgs,
       overflow_checks \in BOOLEAN :
        CallToRdmaMessage(layout, buf_size, pad_cnt, overflow_checks)

(***************************************************************************)
(* utils.rs                                                                *)
(***************************************************************************)
\* u32::from(&Pmtu) of the five Pmtu values
Pmtus == {256, 512, 1024, 2048, 4096}

\* mutation of GetFirstPacketMaxLength: the offset of va in its pmtu block
\* is ignored
FirstPacketFull(va, pmtu) == pmtu

\* get_first_packet_max_length(va, pmtu)
GetFirstPacketMaxLength(va, pmtu) ==
    LET offset == va % pmtu
    IN  pmtu - offset

\* mutation of CalculatePacketCnt: the bytes after the first packet are
\* divided rounding down
CalculatePacketCntFloor(pmtu, raddr, total_len) ==
    LET first_pkt_max_len == GetFirstPacketMaxLength(raddr, pmtu)
        first_pkt_len == Min(total_len, first_pkt_max_len)
    IN  1 + ((total_len - first_pkt_len) \div pmtu)

\* calculate_packet_cnt(pmtu, raddr, total_len)
CalculatePacketCnt(pmtu, raddr, total_len) ==
    LET first_pkt_max_len == GetFirstPacketMaxLength(raddr, pmtu)
        first_pkt_len == Min(total_len, first_pkt_max_len)
    IN  1 + DivCeil(total_len - first_pkt_len, pmtu)

\* the addresses and lengths the calls are made with: around every multiple
\* of the smallest pmtu
NearMultiples(units) ==
    {u * 256 + d : u \in 0..units, d \in {0, 1, 255}}

UtilInit ==
    /\ pktArgs = <<>>
    /\ pktCnt = 0
    /\ fillArgs = <<>>
    /\ fillRes = <<>>
    /\ lenArgs = <<>>
    /\ lenRes = 0

\* the call of calculate_packet_cnt
CallCalculatePacketCnt(pmtu, raddr, total_len) ==
    /\ pktArgs = <<>>
    /\ pktArgs' = <<pmtu, raddr, total_len>>
    /\ pktCnt' = CalculatePacketCnt(pmtu, raddr, total_len)
    /\ UNCHANGED <<fillArgs, fillRes, lenArgs, lenRes>>
    /\ UNCHANGED <<schedVars, pgtVars, mrVars, pollVars, udpVars, bthVars,
                   aethVars, codecVars>>

UtilNext ==
    \E pmtu \in Pmtus, raddr \in NearMultiples(MaxAddrUnits),
       total_len \in NearMultiples(MaxLenUnits) :
        CallCalculatePacketCnt(pmtu, raddr, total_len)

(***************************************************************************)
(* Scheduler properties                                                    *)
(***************************************************************************)
\* x was pushed before y: earlier in the same batch, or by a push call that
\* had returned when the call that pushed y was made
PushedBefore(x, y) ==
    \/ x.call = y.call /\ x.pos < y.pos
    \/ x.call \in pushStart[y.call]

\* how many times descriptor d is held in the queue
QueuedCount(d) ==
    Cardinality({<<i, j>> \in (1..Len(queue)) \X (1..(MaxBatch * MaxPush)) :
                    j <= Len(queue[i].list) /\ queue[i].list[j] = d})

PoppedCount(d) == Cardinality({i \in 1..Len(popped) : popped[i] = d})

PoppedQpns == [i \in 1..Len(popped) |-> popped[i].dqpn]

\* C1: for every qpn, the descriptors pop returns come out in the order they
\* were pushed (batch order, and call order of push calls that did not
\* overlap), and every descriptor a push accepted is held or was returned
\* exactly once, under any interleaving of the threads' push and pop calls.
C1_FifoPerQpn ==
    /\ \A i, j \in 1..Len(popped) :
          (i < j /\ popped[i].dqpn = popped[j].dqpn)
             => ~PushedBefore(popped[j], popped[i])
    /\ \A d \in accepted : QueuedCount(d) + PoppedCount(d) = 1

\* C2: no starvation: a qpn with queued descriptors in a state with k such
\* qpns is served by one of the next k pop calls, whatever is pushed meanwhile.
C2_NoStarvation == \A q \in ActiveQpns(queue) : due[q] >= 1

\* C3: when at least two qpns have queued descriptors at a pop, the pop
\* returns a descriptor of a qpn other than the one the immediately
\* preceding pop served. The property is stated for the pops before which
\* the preceding pop, too, found at least two qpns queued: a qpn pushed
\* between the two pops goes behind the entry the preceding pop rotated to
\* the tail, which is the order the description of push and pop gives, and
\* such a pop is left out.
C3_AlternatesWhenTwoActive ==
    (nPop >= 2 /\ activeAtPop >= 2 /\ activeAtPrevPop >= 2 /\ prevServed # 0)
        => (lastServed # 0 /\ lastServed # prevServed)

\* C4: pop returns a descriptor or None, and fails only when the mutex is
\* already poisoned; it never panics.
C4_PopNeverPanics ==
    \/ lastPop \in {"none_yet", "none", "some"}
    \/ lastPop = "err" /\ poisoned

\* C5: for calls made by one thread, the qpns pop returns are those of the
\* reference scheduler (a rotation of qpns with one fifo per qpn).
C5_MatchesReference == refOut = PoppedQpns

C5_Witness ==
    /\ PoppedQpns = <<1, 2, 1, 2, 2>>
    /\ refOut = <<1, 2, 1, 2, 2>>
    /\ queue = <<>>

(***************************************************************************)
(* Page-table allocator properties                                         *)
(***************************************************************************)
\* C6: once every allocated range has been deallocated, the free list is the
\* single block (0, MR_PGT_SIZE).
C6_CoalescedWhenAllFreed ==
    (allocated = EmptyBag) => freeList = <<Blk(0, MR_PGT_SIZE)>>

\* C7: the free blocks are pairwise non-overlapping, no two of them are
\* adjacent, and together they cover exactly the indices that are not allocated.
C7_FreeBlocksDisjointCoalescedExact ==
    /\ \A i, j \in 1..Len(freeList) :
          i # j => /\ BlkIndices(freeList[i]) \cap BlkIndices(freeList[j]) = {}
                   /\ freeList[i].idx + freeList[i].len # freeList[j].idx
    /\ FreeIndices = (0..(MR_PGT_SIZE - 1)) \ AllocatedIndices

\* the first block in list order that can hold n entries, 0 when there is none
FirstFit(fl, n) ==
    IF \E i \in 1..Len(fl) : fl[i].len >= n
    THEN CHOOSE i \in 1..Len(fl) :
            /\ fl[i].len >= n
            /\ \A j \in 1..(i - 1) : fl[j].len < n
    ELSE 0

\* C8: alloc(n) returns the start of the first block in list order with
\* len >= n, takes n entries from the front of that block (unlinking it when
\* nothing is left) and changes no other block; with no such block it returns
\* ResourceNoAvailable and leaves the free list as it is.
C8_AllocFirstFit ==
    \A n \in 0..(MR_PGT_SIZE + 1) :
        LET r == MrPgtAlloc(freeList, n)
            i == FirstFit(freeList, n)
        IN  IF i = 0
            THEN ~r.ok /\ r.list = freeList
            ELSE /\ r.ok
                 /\ r.idx = freeList[i].idx
                 /\ \A j \in 1..(i - 1) : r.list[j] = freeList[j]
                 /\ IF freeList[i].len = n
                    THEN /\ Len(r.list) = Len(freeList) - 1
                         /\ \A j \in i..Len(r.list) : r.list[j] = freeList[j + 1]
                    ELSE /\ Len(r.list) = Len(freeList)
                         /\ r.list[i] = Blk(freeList[i].idx + n, freeList[i].len - n)
                         /\ \A j \in (i + 1)..Len(r.list) : r.list[j] = freeList[j]

\* an alloc took its range from a later block after passing over a block
\* that was too short, and unlinked the block it emptied
C8_Witness ==
    /\ pgtLast.op = "alloc" /\ pgtLast.res >= 0 /\ pgtLast.n = 2
    /\ Len(freeList) = 1
    /\ freeList[1].len = 1
    /\ freeList[1].idx # pgtLast.res + pgtLast.n
    /\ BagIn(Blk(pgtLast.res, 2), allocated)

(***************************************************************************)
(* Memory-region properties                                                *)
(***************************************************************************)
\* C9: no two MRs that are registered at the same time have keys with the
\* same slot index, and every registered MR has its own MR table slot,
\* under any interleaving of the threads' reg_mr and dereg_mr calls.
C9_KeySlotsUnique ==
    /\ \A k1, k2 \in liveMrs : k1 # k2 => KeySlot(k1) # KeySlot(k2)
    /\ \A k \in liveMrs : KeySlot(k) \in Slots /\ mrTable[KeySlot(k)].key = k

\* two MRs are registered at once, the second by the reg_mr call that returned last
C9_Witness ==
    /\ Cardinality(liveMrs) = 2
    /\ mret.op = "reg_mr" /\ mret.res = "Ok" /\ mret.key \in liveMrs
    /\ \A k \in liveMrs : mrTable[KeySlot(k)].key = k

\* C10: a dereg_mr call whose key addresses an occupied slot but differs from
\* the key stored there returns an error, frees no page-table entries, pushes
\* no invalidating descriptor, and leaves the slot and the PD's set unchanged.
C10_TagMismatchDenied ==
    (mret.op = "dereg_mr" /\ mret.mismatch)
        => /\ mret.res # "Ok"
           /\ ~mret.freed
           /\ ~mret.pushed
           /\ mret.slotKept
           /\ mret.pdKept

\* C11: when the fill loop of register_page_table fails (a page address is
\* not aligned, or the adaptor refuses the translation), reg_mr returns that
\* error and the free page-table indices are those from before the call.
C11_FillErrorRollsBack ==
    [][\A t \in Threads :
          (mpc[t] = "rpt_fill" /\ mpc'[t] = "idle")
             => /\ mret'.res \in {"GetPhysAddrFailed", "AddressNotAlign"}
                /\ FreeIndices' = mloc[t].freeBefore]_vars

\* C12: when the device answers UpdatePageTable with is_success = false,
\* reg_mr returns DeviceReturnFailed, no UpdateMrTable descriptor is issued,
\* the MR slot stays empty and the free page-table indices are those from
\* before the call.
C12_PgtFailureRollsBack ==
    [][\A t \in Threads :
          (mpc[t] = "rpt_wait" /\ ctrl_op_ctx_map[mloc[t].opid] = "false" /\ mpc'[t] # "rpt_wait")
             => /\ mpc'[t] = "idle"
                /\ mret'.op = "reg_mr" /\ mret'.res = "DeviceReturnFailed"
                /\ \A i \in 1..Len(ctrlRing') : ctrlRing'[i].kind # "UpdateMrTable"
                /\ mrTable'[mloc[t].idx] = NoMr
                /\ FreeIndices' = mloc[t].freeBefore]_vars

\* C13: when the device answers UpdateMrTable with is_success = false, reg_mr
\* returns DeviceReturnFailed, the MR slot stays empty, the PD's MR set is
\* unchanged and the free page-table indices are those from before the call.
C13_MrFailureRollsBack ==
    [][\A t \in Threads :
          (mpc[t] = "reg_wait" /\ ctrl_op_ctx_map[mloc[t].opid] = "false" /\ mpc'[t] # "reg_wait")
             => /\ mret'.res = "DeviceReturnFailed"
                /\ mrTable'[mloc[t].idx] = NoMr
                /\ pdPool' = pdPool
                /\ FreeIndices' = mloc[t].freeBefore]_vars

\* C14: a thread that has pushed a control descriptor and waits on its
\* operation context holds none of the MR-table, PD-pool and PGT mutexes.
C14_NoLockAcrossCtrlOp ==
    \A t \in Threads :
        mpc[t] \in {"rpt_wait", "reg_wait", "dereg_wait"}
            => \A l \in Locks : lock[l] # t


(***************************************************************************)
(* Control poller and UDP agent properties                                 *)
(***************************************************************************)
\* C15: whatever the order in which the responses arrive, the result a
\* context holds and the result a waiter received are the is_success the
\* device answered that operation with, for every kind of response.
C15_ResultMatchedByOpId ==
    \A id \in CtrlIds :
        /\ ctrl_op_ctx_map[id] \in {"true", "false"} => ctrl_op_ctx_map[id] = devAns[id]
        /\ got[id] \in {"true", "false"} => got[id] = devAns[id]

\* two operations that were outstanding together were answered with
\* different results and both waiters have their own result
C15_Witness ==
    /\ got[1] = "false" /\ got[2] = "true"
    /\ devAns[1] = "false" /\ devAns[2] = "true"
    /\ ctrl_op_ctx_map[1] = "absent" /\ ctrl_op_ctx_map[2] = "absent"
    /\ ppc = "loop" /\ ~stop_flag

\* C16: once the poller thread has exited while an operation waits for its
\* response, the waiter is eventually released.
C16_WaiterReleasedAfterStop ==
    \A id \in CtrlIds :
        (ppc = "exited" /\ got[id] = "waiting") ~> (got[id] # "waiting")

\* C17: when the pop on the to-host control ring returns an error, the
\* poller thread sets its stop flag and exits, and handles no descriptor
\* afterwards.
C17_RingErrorStopsPoller ==
    [][(ppc = "pop" /\ ringFailed /\ ppc' # "pop")
          => (ppc' = "exited" /\ stop_flag')]_vars

\* C18: handling a response whose op id has no installed context changes no
\* context, and the poller thread goes on with its loop.
C18_MissingContextDropped ==
    [][(ppc = "handle" /\ ppc' # "handle" /\ CtxGet(ctrl_op_ctx_map, pdesc.op_id) = -1)
          => (ctrl_op_ctx_map' = ctrl_op_ctx_map /\ ppc' = "loop")]_vars

\* the poller is handling a response without a context while an operation
\* is pending and its response is next in the ring
C18_Witness ==
    /\ ppc = "handle" /\ pdesc.op_id = StrayId
    /\ ctrl_op_ctx_map[1] = "pending"
    /\ to_host_ctrl_rb # <<>> /\ to_host_ctrl_rb[1].op_id = 1

\* C19: after UDPReceiveAgent::drop has set the stop flag, the listen thread
\* exits and drop returns, also when no further frame arrives.
C19_UdpDropReturns == (udpDropPc = "joining") ~> (udpDropPc = "joined")

\* C20: after ControlPoller::drop has set the stop flag the poller thread
\* handles at most one more descriptor, drop returns only after the thread
\* has exited, and drop does return when the pop in progress returns (the
\* thread is not in pop, or the ring has a response or has failed).
C20_PollerDropJoins ==
    /\ [](afterStop <= 1)
    /\ [](dropPc = "joined" => (ppc = "exited" /\ stop_flag))
    /\ (dropPc = "joining" /\ (ppc # "pop" \/ ringFailed \/ to_host_ctrl_rb # <<>>))
          ~> (dropPc = "joined")

\* drop has returned after the thread handled the descriptor of the pop that
\* was in progress when the flag was set
C20_Witness ==
    /\ dropPc = "joined" /\ ppc = "exited"
    /\ afterStop = 1
    /\ ~ringFailed

(***************************************************************************)
(* UDP receive agent properties, continued                                 *)
(***************************************************************************)
\* C21: receiver.recv is called for a received frame only if the frame is at
\* least sizeof(IP)+sizeof(UDP)+sizeof(BTH)+4 bytes long, its ICRC is valid
\* and its bytes parse as an RDMA message; every other frame is dropped
\* without a call of recv and the listen thread goes back to its loop
C21_RecvOnlyWellFormed ==
    [][(upc = "process" /\ upc' # "process") =>
         /\ (delivered' # NoFrame =>
                /\ delivered' = uframe
                /\ uframe.len >= SizeofIpv4Header + SizeofUdpHeader + SizeofBTH + 4
                /\ uframe.icrc = "valid"
                /\ uframe.layout \in Layouts
                /\ uframe.meta_ok)
         /\ (delivered' = NoFrame => upc' = "loop")]_vars

(***************************************************************************)
(* utils.rs properties                                                     *)
(***************************************************************************)
\* the least k with k * b >= a
Ceil(a, b) ==
    CHOOSE k \in 0..((a \div b) + 1) : k * b >= a /\ (k = 0 \/ (k - 1) * b < a)

\* C22: calculate_packet_cnt(pmtu, raddr, total_len) is
\* 1 + ceil((total_len - first) / pmtu) with
\* first = min(total_len, pmtu - raddr mod pmtu); for total_len a positive
\* multiple of pmtu it is total_len / pmtu when raddr is pmtu-aligned and
\* total_len / pmtu + 1 otherwise
C22_PacketCount ==
    pktArgs # <<>> =>
        LET pmtu == pktArgs[1]
            raddr == pktArgs[2]
            total_len == pktArgs[3]
            first == Min(total_len, pmtu - (raddr % pmtu))
        IN  /\ pktCnt = 1 + Ceil(total_len - first, pmtu)
            /\ (total_len > 0 /\ total_len % pmtu = 0) =>
                   pktCnt = IF raddr % pmtu = 0
                            THEN total_len \div pmtu
                            ELSE (total_len \div pmtu) + 1

\* 4096 bytes at pmtu 1024 from an unaligned address: 5 packets
C22_Witness ==
    /\ pktArgs = <<1024, 1023, 4096>>
    /\ pktCnt = 5

(***************************************************************************)
(* register_page_table properties                                          *)
(***************************************************************************)
\* C26: the page loop of reg_mr passes only if the start va and the physical
\* address of every covered page are multiples of the page_size argument;
\* otherwise the call, when the page table had room for it, fails with
\* AddressNotAlign naming "va" or "pa" and the offending address
C26_AlignedToPageSizeArg ==
    fillArgs # <<>> =>
        LET addr == fillArgs[1]
            length == fillArgs[2]
            pg_size == fillArgs[3]
            pa_off == fillArgs[4]
            cnt == Ceil(length, pg_size)
            aligned ==
                /\ addr % pg_size = 0
                /\ \A i \in 0..(cnt - 1) :
                      GetPhysAddr(addr + i * pg_size, pa_off) % pg_size = 0
        IN  /\ fillRes = <<"Ok">> => aligned
            /\ (~aligned /\ pa_off >= 0 /\ fillRes # <<"ResourceNoAvailable">>) =>
                  /\ fillRes[1] = "AddressNotAlign"
                  /\ fillRes[2] \in {"va", "pa"}

(***************************************************************************)
(* Memory-region properties, continued                                     *)
(***************************************************************************)
\* C27: every reg_mr call returns an Mr or a typed error for every argument
\* combination, page_size = 0 and len = 0 included: no caller of reg_mr
\* panics
C27_RegMrNeverPanics == \A t \in Threads : mpc[t] # "panicked"

\* C28: reg_mr rejects before any side effect: with no free slot it returns
\* ResourceNoAvailable, with a free slot and an unknown pd it returns Invalid,
\* and in both cases no page-table entry was allocated, no control
\* descriptor was pushed and no op id was consumed
C28_RejectsBeforeSideEffects ==
    [][\A t \in Threads :
          (mpc[t] = "reg_find" /\ mpc'[t] # "reg_find") =>
              LET noSlot == \A i \in Slots : mrTable[i] # NoMr
                  noPd == mloc[t].pd \notin DOMAIN pdPool
              IN  IF noSlot \/ noPd
                  THEN /\ mpc'[t] = "idle"
                       /\ mret'.op = "reg_mr"
                       /\ mret'.res = IF noSlot THEN "ResourceNoAvailable"
                                      ELSE "Invalid"
                       /\ FreeIndices' = mloc[t].freeBefore
                       /\ UNCHANGED <<pgtVars, ctrlRing, nextOpId, ctrl_op_ctx_map,
                                      mrTable, pdPool>>
                  ELSE mpc'[t] = "rpt_lock"]_vars

C28_Witness ==
    /\ mret.op = "reg_mr"
    /\ mret.res = "ResourceNoAvailable"
    /\ \A i \in Slots : mrTable[i] # NoMr

\* C29: dereg_mr on a registered MR first pushes an UpdateMrTable descriptor
\* with the MR's key and every other field zero, waits for its success
\* response, and only then frees exactly the ceil(len / page_size)
\* page-table entries at the MR's pgt_offset, removes the MR from its PD and
\* empties the slot; the page-table range is never freed before the device
\* confirmed the invalidation (a call whose do_ctrl_op or wait_result fails
\* returns that error and frees nothing)
C29_DeregInvalidatesThenFrees ==
    [][\A t \in Threads :
          (mloc[t].op = "dereg_mr" /\ mloc[t].key \in liveMrs
             /\ mpc'[t] # mpc[t] /\ ~lockPoisoned["mr_pgt"]) =>
              LET idx == KeySlot(mloc[t].key)
                  ctx == mrTable[idx]
                  cnt == Ceil(ctx.len, ctx.pg_size)
              IN  /\ mpc[t] = "dereg_lookup" =>
                        /\ \/ /\ mpc'[t] = "idle"
                              /\ mret'.res = "DoCtrlOpErr"
                              /\ UNCHANGED ctrlRing
                           \/ /\ mpc'[t] = "dereg_wait"
                              /\ ctrlRing' = Append(ctrlRing,
                                    [kind |-> "UpdateMrTable", op_id |-> nextOpId,
                                     key |-> mloc[t].key, len |-> 0,
                                     pgt_offset |-> 0, pd_hdl |-> 0])
                        /\ UNCHANGED <<pgtVars, mrTable, pdPool>>
                  /\ mpc[t] = "dereg_wait" =>
                        /\ \/ /\ mpc'[t] = "dereg_pgt"
                              /\ ctrl_op_ctx_map[mloc[t].opid] = "true"
                           \/ /\ mpc'[t] = "idle"
                              /\ mret'.res = "DeviceReturnFailed"
                              /\ ctrl_op_ctx_map[mloc[t].opid] = "false"
                           \/ /\ mpc'[t] = "idle"
                              /\ mret'.res \in {"SetCtxResultFailed", "WaitResultErr"}
                        /\ UNCHANGED <<pgtVars, mrTable, pdPool>>
                  /\ mpc[t] = "dereg_pgt" =>
                        /\ FreeIndices' = FreeIndices \cup
                              {ctx.pgt_offset + i : i \in 0..(cnt - 1)}
                        /\ pdPool' = [pdPool EXCEPT ![ctx.pd] = @ \ {mloc[t].key}]
                        /\ mrTable' = [mrTable EXCEPT ![idx] = NoMr]
                        /\ mret'.op = "dereg_mr" /\ mret'.res = "Ok"]_vars

\* the device has answered the descriptor thread t waits for with
\* is_success = false: the response is in the to-host ring, in the hands of
\* the poller, or published as the operation's result
AnsweredFalse(t) ==
    \/ ctrl_op_ctx_map[mloc[t].opid] = "false"
    \/ \E i \in 1..Len(to_host_ctrl_rb) :
          /\ to_host_ctrl_rb[i].op_id = mloc[t].opid
          /\ ~to_host_ctrl_rb[i].is_success
    \/ pdesc.op_id = mloc[t].opid /\ ~pdesc.is_success

\* a dereg_mr call left its wait and nothing of the MR was touched
DeregKeptMr(t) ==
    /\ mpc'[t] = "idle"
    /\ mret'.op = "dereg_mr"
    /\ UNCHANGED <<mrTable, pdPool, pgtVars, liveMrs>>
    /\ FreeIndices' = FreeIndices
    /\ mloc[t].key \in liveMrs =>
          /\ mrTable'[KeySlot(mloc[t].key)].key = mloc[t].key
          /\ mloc[t].key \in pdPool'[mrTable'[KeySlot(mloc[t].key)].pd]

\* C30 as stated: when the device answers the UpdateMrTable descriptor of
\* dereg_mr with is_success = false, dereg_mr returns DeviceReturnFailed and
\* the MR slot, the PD's MR set and the page-table free list are unchanged:
\* the MR stays registered
C30_DeregFailureKeepsMr ==
    [][\A t \in Threads :
          (mloc[t].op = "dereg_mr" /\ mpc[t] = "dereg_wait"
             /\ mpc'[t] # mpc[t] /\ AnsweredFalse(t)) =>
              /\ mret'.res = "DeviceReturnFailed"
              /\ DeregKeptMr(t)]_vars

\* C30 amended: when the device answers the UpdateMrTable descriptor of
\* dereg_mr with is_success = false, dereg_mr returns an error, which is
\* DeviceReturnFailed when wait_result delivers the answer and the error of
\* wait_result (SetCtxResultFailed for Ok(None)) when the wait fails instead,
\* and the MR slot, the PD's MR set and the page-table free list are
\* unchanged: the MR stays registered
C30_DeregFailureReturnsErrorKeepsMr ==
    [][\A t \in Threads :
          (mloc[t].op = "dereg_mr" /\ mpc[t] = "dereg_wait"
             /\ mpc'[t] # mpc[t] /\ AnsweredFalse(t)) =>
              /\ mret'.res \in {"DeviceReturnFailed", "SetCtxResultFailed",
                                "WaitResultErr"}
              /\ mret'.res = "DeviceReturnFailed" =>
                    ctrl_op_ctx_map[mloc[t].opid] = "false"
              /\ DeregKeptMr(t)]_vars

\* a dereg_mr call on a registered MR returned SetCtxResultFailed after the
\* device had answered its descriptor with is_success = false (the response
\* is still in the to-host ring), and the MR is in its slot and in its PD's
\* set
C30_Witness ==
    /\ mret.op = "dereg_mr" /\ mret.res = "SetCtxResultFailed"
    /\ mret.pushed /\ ~mret.freed /\ mret.slotKept /\ mret.pdKept
    /\ \E i \in 1..Len(to_host_ctrl_rb) :
          /\ to_host_ctrl_rb[i].kind = "UpdateMrTable"
          /\ ~to_host_ctrl_rb[i].is_success
          /\ \E k \in liveMrs :
                /\ mrTable[KeySlot(k)].key = k
                /\ k \in pdPool[mrTable[KeySlot(k)].pd]
    /\ \A t \in Threads : mpc[t] = "idle"

\* C31: the key reg_mr builds for slot index i < 2^MR_KEY_IDX_BIT_CNT has i
\* in its upper MR_KEY_IDX_BIT_CNT bits and the random tag in its lower
\* bits, so that the slot index dereg_mr computes from the key is i, for
\* every tag value
C31_KeyCarriesSlotIndex ==
    /\ \A t \in Threads :
          mpc[t] = "reg_wait" =>
              /\ KeySlot(mloc[t].key) = mloc[t].idx
              /\ \E r \in Keys :
                    mloc[t].key % Pow2(KeyWidth - MR_KEY_IDX_BIT_CNT)
                        = r \div Pow2(MR_KEY_IDX_BIT_CNT)
    /\ \A i \in 0..(Pow2(MR_KEY_IDX_BIT_CNT) - 1), r \in Keys :
          /\ KeySlot(MakeKey(i, r)) = i
          /\ MakeKey(i, r) % Pow2(KeyWidth - MR_KEY_IDX_BIT_CNT)
                = r \div Pow2(MR_KEY_IDX_BIT_CNT)

\* a reg_mr call built the key of the last slot with a tag that is not zero
C31_Witness ==
    \E t \in Threads :
        /\ mpc[t] = "reg_wait"
        /\ mloc[t].idx = MR_TABLE_SIZE - 1
        /\ mloc[t].key % Pow2(KeyWidth - MR_KEY_IDX_BIT_CNT) # 0
        /\ KeySlot(mloc[t].key) = MR_TABLE_SIZE - 1

(***************************************************************************)
(* packet.rs properties                                                    *)
(***************************************************************************)
\* what all the getters of a BTH read
BthFields(h) ==
    [tran_type |-> GetTransactionType(h), opcode |-> GetOpcode(h),
     solicited |-> GetSolicited(h), pad_cnt |-> GetPadCnt(h),
     pkey |-> GetPkey(h), dqpn |-> GetDestinationQpn(h),
     ack_req |-> GetAckReq(h), psn |-> GetPsn(h)]

\* C24: each BTH setter changes only its own field, from any BTH contents
\* and in any order of the calls: set_psn(p) makes get_psn = p mod 2^24,
\* set_destination_qpn(q) makes get_destination_qpn = q mod 2^24,
\* set_ack_req, set_flags_solicited, set_pad_cnt(0..3), set_pkey and
\* set_opcode_and_type read back as set, and every other getter reads what
\* it read before the call (fill_ecn_and_resv6 changes what no getter reads)
C24_BthSettersIndependent ==
    [][bthLast'[1] \notin {"none", "from_bytes"} =>
         LET name == bthLast'[1]
             arg == bthLast'[2]
             old == BthFields(bth)
             expected ==
                CASE name = "set_psn" ->
                        [old EXCEPT !.psn = arg % (2 ^ 24)]
                  [] name = "set_ack_req" -> [old EXCEPT !.ack_req = arg]
                  [] name = "set_destination_qpn" ->
                        [old EXCEPT !.dqpn = arg % (2 ^ 24)]
                  [] name = "set_flags_solicited" ->
                        [old EXCEPT !.solicited = arg]
                  [] name = "set_pad_cnt" -> [old EXCEPT !.pad_cnt = arg]
                  [] name = "set_pkey" -> [old EXCEPT !.pkey = arg]
                  [] name = "set_opcode_and_type" ->
                        [old EXCEPT !.opcode = arg[1], !.tran_type = arg[2]]
                  [] name = "fill_ecn_and_resv6" -> old
         IN  BthFields(bth') = expected]_vars

\* set_psn was called with a psn of more than 24 bits on a BTH that has
\* ack_req and the reserved bits beside it set
C24_Witness ==
    /\ bthLast = <<"set_psn", 16777218>>
    /\ GetPsn(bth) = 2
    /\ GetAckReq(bth)
    /\ bth.psn[1] = 255
    /\ GetPadCnt(bth) = 2
    /\ GetSolicited(bth)

\* C25: for every code c in 0..255, every 5-bit value v and every msn m,
\* once set_aeth_code_and_value(c, v) and set_msn(m) were called, in either
\* order, get_aeth_code = c mod 4, get_aeth_value = v and
\* get_msn = m mod 2^24: neither setter changes what the other one set
C25_AethReadsBack ==
    /\ aethCv # <<>> =>
          /\ GetAethCode(aeth) = aethCv[1] % 4
          /\ GetAethValue(aeth) = aethCv[2]
    /\ aethMsn # <<>> => GetMsn(aeth) = aethMsn[1] % (2 ^ 24)

\* code 2, value 5 and msn 0x123456 were set: the bytes are 45 12 34 56
C25_Witness ==
    /\ aethCv = <<2, 5>>
    /\ aethMsn = <<1193046>>
    /\ aeth = <<69, 18, 52, 86>>

\* a message of the kind its opcode's header layout carries: an immediate
\* with BTH+RETH+Imm only, a secondary RETH with BTH+RETH+RETH only, an
\* acknowledge with BTH+AETH only
MatchingKind(message) ==
    LET meta == message.meta_data
        layout == LayoutOfOpcode(meta.common_meta.opcode)
    IN  IF layout = "BthAeth" THEN meta.kind = "Acknowledge"
        ELSE /\ meta.kind = "General"
             /\ (meta.imm # <<>>) <=> (layout = "BthRethImm")
             /\ (meta.secondary_reth # <<>>) <=> (layout = "BthDoubleReth")

LayoutBytes(layout) ==
    CASE layout = "BthReth" -> 28
      [] layout = "BthRethImm" -> 32
      [] layout = "BthDoubleReth" -> 44
      [] layout = "BthAeth" -> 16

\* C23: for each of the four header layouts and every well-formed message m
\* of the matching kind, set_from_rdma_message(m) returns the layout's header
\* size (28, 32, 44, 16 bytes), parsing the header it wrote yields metadata
\* equal to m's, and serialising the parsed message again reproduces the
\* header bytes
C23_CodecRoundTrip ==
    (codecPc # "idle" /\ MatchingKind(codecMsg)) =>
        /\ codecPc # "failed"
        /\ codecRet = LayoutBytes(LayoutOfOpcode(codecMsg.meta_data.common_meta.opcode))
        /\ codecPc \in {"parsed", "rewritten"} =>
              codecParsed.meta_data = codecMsg.meta_data
        /\ codecPc = "rewritten" => codecHdr2 = codecHdr

\* a read request with its secondary RETH went through the round trip
C23_Witness ==
    /\ codecPc = "rewritten"
    /\ codecMsg.meta_data.kind = "General"
    /\ codecMsg.meta_data.common_meta.opcode = 12
    /\ codecMsg.meta_data.secondary_reth # <<>>
    /\ codecMsg.meta_data.common_meta.ack_req
    /\ codecMsg.payload_len = 5
    /\ codecRet = 44
    /\ codecHdr.secondary_reth.rkey = <<1, 35, 69, 103>>

\* thread t waits for the device's response to the descriptor it pushed
WaitsForDevice(t) == mpc[t] \in {"rpt_wait", "reg_wait", "dereg_wait"}

\* C33: reg_mr is two-phase: its UpdateMrTable descriptor is pushed only
\* after the UpdatePageTable descriptor of the same call was answered with
\* success, the MR table slot becomes occupied and the MR enters the set of
\* its PD only after UpdateMrTable was answered with success, and no slot is
\* ever occupied by an MR the device has not confirmed. The answer is that of
\* the same call: a call waits on the op id of the descriptor it pushed, no
\* descriptor or response on its way and no other call has that op id, the
\* device's response carries the variant and the op id of the descriptor it
\* answers, and a result is published only by the poller, from the response
\* with the waiting call's op id and variant
C33_RegMrTwoPhase ==
    [][/\ \A t \in Threads :
            (mloc[t].op = "reg_mr" /\ mpc'[t] # mpc[t]) =>
                /\ mpc'[t] = "reg_push" =>
                      /\ mpc[t] = "rpt_wait"
                      /\ ctrl_op_ctx_map[mloc[t].opid] = "true"
                /\ mpc'[t] = "reg_wait" =>
                      /\ mpc[t] = "reg_push"
                      /\ Len(ctrlRing') = Len(ctrlRing) + 1
                      /\ ctrlRing'[Len(ctrlRing')].kind = "UpdateMrTable"
                      /\ ctrlRing'[Len(ctrlRing')].key = mloc'[t].key
                /\ (Len(ctrlRing') > Len(ctrlRing)
                      /\ ctrlRing'[Len(ctrlRing')].kind = "UpdateMrTable") =>
                      mpc[t] = "reg_push"
                /\ (mrTable' # mrTable \/ pdPool' # pdPool) =>
                      /\ mpc[t] = "reg_wait"
                      /\ ctrl_op_ctx_map[mloc[t].opid] = "true"
       /\ \A i \in Slots :
            (mrTable'[i] # NoMr /\ mrTable'[i] # mrTable[i]) =>
                \E t \in Threads :
                    /\ mpc[t] = "reg_wait" /\ mpc'[t] = "idle"
                    /\ ctrl_op_ctx_map[mloc[t].opid] = "true"
                    /\ mrTable'[i].key = mloc[t].key
       /\ \A t \in Threads :
            (mpc[t] = "rpt_push" /\ mpc'[t] = "rpt_wait") =>
                /\ ctrlRing' = Append(ctrlRing, ctrlRing'[Len(ctrlRing')])
                /\ ctrlRing'[Len(ctrlRing')].kind = "UpdatePageTable"
                /\ ctrlRing'[Len(ctrlRing')].op_id = mloc'[t].opid
       /\ Len(ctrlRing') > Len(ctrlRing) =>
            /\ ctrlRing'[Len(ctrlRing')].op_id \notin InFlightIds
            /\ ctrl_op_ctx_map[ctrlRing'[Len(ctrlRing')].op_id] = "absent"
            /\ \A t \in Threads :
                  mpc[t] = mpc'[t] => mloc[t].opid # ctrlRing'[Len(ctrlRing')].op_id
       /\ Len(to_host_ctrl_rb') > Len(to_host_ctrl_rb) =>
            \E i \in 1..Len(ctrlRing) :
                /\ ctrlRing' = RemoveAt(ctrlRing, i)
                /\ to_host_ctrl_rb'[Len(to_host_ctrl_rb')].kind = ctrlRing[i].kind
                /\ to_host_ctrl_rb'[Len(to_host_ctrl_rb')].op_id = ctrlRing[i].op_id
       /\ \A id \in OpIds :
            (ctrl_op_ctx_map[id] \notin {"true", "false"}
               /\ ctrl_op_ctx_map'[id] \in {"true", "false"}) =>
                /\ ppc = "handle" /\ pdesc.op_id = id
                /\ ctrl_op_ctx_map'[id] = BoolRes(pdesc.is_success)
                /\ \E t \in Threads :
                      /\ WaitsForDevice(t) /\ mloc[t].opid = id
                      /\ pdesc.kind = IF mpc[t] = "rpt_wait"
                                      THEN "UpdatePageTable"
                                      ELSE "UpdateMrTable"]_vars

\* a reg_mr call returned its Mr after both of its descriptors were answered
\* with success, after an earlier call had taken an op id and returned an
\* error with its page-table entries still allocated: the slot holds the MR
\* and the PD's set has its key
C33_Witness ==
    /\ mret.op = "reg_mr" /\ mret.res = "Ok"
    /\ mrTable[KeySlot(mret.key)].key = mret.key
    /\ mrTable[KeySlot(mret.key)].len > 0
    /\ mret.key \in pdPool[mrTable[KeySlot(mret.key)].pd]
    /\ \A t \in Threads : mpc[t] = "idle"
    /\ nextOpId > 3
    /\ \E b \in BagToSet(allocated) :
          \A k \in liveMrs : mrTable[KeySlot(k)].pgt_offset # b.idx

\* thread t is inside a call and waits for mutex l
WaitsForLock(t, l) ==
    \/ l = "pd" /\ mpc[t] = "lock_pd"
    \/ l = "mr_pgt" /\ mpc[t] \in {"rpt_lock", "dereg_pgt"}

\* the mutexes are taken in the order MR table, PD pool, PGT: a mutex a
\* thread waits for is free or held by a thread that waits for no mutex, a
\* mutex is held only by a thread inside a call, and a call that waits for
\* a device response waits for no mutex: its result is published, or its
\* descriptor is in the to-card ring, or its response is in the to-host ring
\* or in the hands of the control poller
LockOrderKept ==
    \A t \in Threads :
        /\ lock["pd"] = t => lock["mr_table"] = t
        /\ lock["mr_pgt"] = t => (lock["pd"] = t /\ lock["mr_table"] = t)
        /\ \A l \in Locks :
              /\ lock[l] = t => mpc[t] \notin {"idle", "panicked"}
              /\ WaitsForLock(t, l) =>
                    /\ lock[l] # t
                    /\ l = "pd" => lock["mr_table"] = t
                    /\ l = "mr_pgt" => (lock["pd"] = t /\ lock["mr_table"] = t)
                    /\ \A u \in Threads :
                          lock[l] = u =>
                              \A m \in Locks : ~WaitsForLock(u, m)
        /\ WaitsForDevice(t) =>
              \/ ctrl_op_ctx_map[mloc[t].opid] \in {"true", "false"}
              \/ /\ ctrl_op_ctx_map[mloc[t].opid] = "pending"
                 /\ \/ \E i \in 1..Len(ctrlRing) :
                          ctrlRing[i].op_id = mloc[t].opid
                    \/ \E i \in 1..Len(to_host_ctrl_rb) :
                          to_host_ctrl_rb[i].op_id = mloc[t].opid
                    \/ pdesc.op_id = mloc[t].opid

\* the device's response to the descriptor thread t waits for is in the
\* to-host control ring
ResponseArrived(t) ==
    /\ WaitsForDevice(t)
    /\ \E i \in 1..Len(to_host_ctrl_rb) : to_host_ctrl_rb[i].op_id = mloc[t].opid

\* C37: reg_mr, dereg_mr and register_page_table take the MR-table, PD-pool
\* and PGT mutexes in one fixed order (MR table, PD pool, PGT), so calls
\* running on several threads never deadlock on these mutexes, and a call
\* that waits for a device response blocks the other calls only until that
\* response arrives: once the response is in the to-host ring the call
\* leaves its wait
C37_FixedLockOrderNoDeadlock ==
    /\ []LockOrderKept
    /\ \A t \in Threads :
          ResponseArrived(t) ~> ~WaitsForDevice(t)

(***************************************************************************)
(* Scheduler properties, continued                                         *)
(***************************************************************************)
\* C36: under any interleaving of concurrent push calls (from different
\* threads, for the same or different qpns) and pop calls, the scheduler
\* queue never holds two entries with the same qpn: the search for an
\* existing entry and the insertion of a new entry in push act as one atomic
\* step
C36_OneEntryPerQpn ==
    \A i, j \in 1..Len(queue) : i # j => queue[i].qpn # queue[j].qpn

(***************************************************************************)
(* Page-table allocator properties, continued                              *)
(***************************************************************************)
\* C34: in every state reachable from MrPgt::new by alloc and dealloc calls
\* the free-block list is ordered by non-decreasing block length, the order
\* dealloc assumes when it looks for the insert position
C34_FreeListOrderedByLength ==
    \A i, j \in 1..Len(freeList) : i < j => freeList[i].len <= freeList[j].len

\* the page-table indices of a range
RangeOf(b) == {b.idx + k : k \in 0..(b.len - 1)}

\* C35: MrPgt::alloc never returns a range that overlaps a range returned by
\* an earlier alloc and not yet deallocated, and never a range that reaches
\* past MR_PGT_SIZE, after any sequence of alloc calls and of dealloc calls
\* that release currently allocated ranges
C35_AllocDisjointInRange ==
    \A b \in BagToSet(allocated) :
        b.len > 0 =>
            /\ RangeOf(b) \subseteq 0..(MR_PGT_SIZE - 1)
            /\ CopiesIn(b, allocated) = 1
            /\ \A c \in BagToSet(allocated) :
                  c # b => RangeOf(b) \cap RangeOf(c) = {}

(***************************************************************************)
(* utils.rs properties, continued                                          *)
(***************************************************************************)
\* C38: for every pmtu, every raddr and every total_len >= 1,
\* calculate_packet_cnt is the number of pmtu-aligned address windows that
\* the byte range [raddr, raddr + total_len) touches,
\* floor((raddr + total_len - 1) / pmtu) - floor(raddr / pmtu) + 1, so no
\* packet crosses a pmtu boundary of the remote address space; for
\* total_len = 0 the count is 1
C38_PacketCountIsWindowCount ==
    pktArgs # <<>> =>
        LET pmtu == pktArgs[1]
            raddr == pktArgs[2]
            total_len == pktArgs[3]
            windows == {w \in 0..((raddr + total_len) \div pmtu) :
                          \E a \in raddr..(raddr + total_len - 1) :
                              a \div pmtu = w}
        IN  IF total_len = 0 THEN pktCnt = 1
            ELSE /\ pktCnt = ((raddr + total_len - 1) \div pmtu)
                               - (raddr \div pmtu) + 1
                 /\ pktCnt = Cardinality(windows)

\* 257 bytes at pmtu 256 from the last byte of a window: two windows, the
\* second one filled to its end
C38_Witness ==
    /\ pktArgs = <<256, 255, 257>>
    /\ pktCnt = 2

(***************************************************************************)
(* packet.rs properties, continued                                         *)
(***************************************************************************)
\* C39: for every header layout and every received buffer, the payload
\* length to_rdma_message reports is buffer size - header size - pad_cnt and
\* never exceeds the number of bytes that follow the header in the buffer:
\* the subtraction never underflows or wraps, a buffer shorter than the
\* header and a payload shorter than pad_cnt included
C39_PayloadLengthNeverWraps ==
    lenArgs # <<>> =>
        LET header == SizeofLayout(lenArgs[1])
            buf_size == lenArgs[2]
            pad_cnt == lenArgs[3]
        IN  /\ lenRes # Panicked
            /\ lenRes = buf_size - header - pad_cnt
            /\ lenRes >= 0
            /\ lenRes <= buf_size - header

\* C40: set_aeth_code_and_value(code, value) called with any 8-bit value
\* never alters the AETH code or the reserved top bit: afterwards
\* get_aeth_code = code mod 4 and bit 7 of the first AETH byte is 0
C40_ValueKeepsCodeAndReservedBit ==
    aethCv # <<>> =>
        /\ GetAethCode(aeth) = aethCv[1] % MAX_AETH_CODE
        /\ BitAnd(aeth[1], 2 ^ 7) = 0

(***************************************************************************)
(* packet.rs properties: set_from_rdma_message                             *)
(***************************************************************************)
\* the metadata of the message does not fit the header layout
MetadataMismatch(layout, meta) ==
    \/ layout \in {"BthReth", "BthRethImm", "BthDoubleReth"}
          /\ meta.kind = "Acknowledge"
    \/ layout = "BthAeth" /\ meta.kind = "General"
    \/ layout = "BthRethImm" /\ meta.kind = "General" /\ meta.imm = <<>>
    \/ layout = "BthDoubleReth" /\ meta.kind = "General"
          /\ meta.secondary_reth = <<>>

\* C32: set_from_rdma_message returns InvalidMetadataType, not a header
\* size, when the metadata of the message does not fit the header layout:
\* Acknowledge metadata for a BTH+RETH, BTH+RETH+Imm or BTH+RETH+RETH layout,
\* General metadata for the BTH+AETH layout, a missing immediate for
\* BTH+RETH+Imm, a missing secondary RETH for BTH+RETH+RETH
C32_MismatchIsInvalidMetadataType ==
    (codecPc # "idle"
       /\ MetadataMismatch(LayoutOfOpcode(codecMsg.meta_data.common_meta.opcode),
                           codecMsg.meta_data)) =>
        /\ codecPc = "failed"
        /\ codecRet = 0
        /\ codecParsed = NoMessage
        /\ RefusedCall(LayoutOfOpcode(codecMsg.meta_data.common_meta.opcode),
                       codecMsg.meta_data) \in codecRefused

\* each of the six cases has been refused: Acknowledge metadata on the three
\* RETH layouts, General metadata on BTH+AETH, a write with immediate
\* without its immediate, and last a read request without its secondary RETH
C32_Witness ==
    /\ codecPc = "failed"
    /\ codecRet = 0
    /\ codecMsg.meta_data.kind = "General"
    /\ codecMsg.meta_data.common_meta.opcode = 12
    /\ codecMsg.meta_data.secondary_reth = <<>>
    /\ codecRefused = {<<"BthReth", "Acknowledge">>,
                       <<"BthRethImm", "Acknowledge">>,
                       <<"BthDoubleReth", "Acknowledge">>,
                       <<"BthAeth", "General">>,
                       <<"BthRethImm", "no imm">>,
                       <<"BthDoubleReth", "no secondary_reth">>}

(***************************************************************************)
(* Specifications                                                          *)
(***************************************************************************)
Init == SchedInit /\ PgtInit /\ MrInit /\ PollInit /\ UdpInit /\ UtilInit /\ BthInit /\ AethInit
        /\ CodecInit

SpecSched == Init /\ [][SchedNext]_vars
SpecSchedSeq == Init /\ [][SchedSeqNext]_vars
SpecPgt == Init /\ [][PgtNext]_vars
SpecMr == Init /\ [][MrNext]_vars /\ WF_vars(MrThreadSteps)
SpecPoll == Init /\ [][PollNext]_vars /\ WF_vars(PollThreadSteps)
SpecUdp == Init /\ [][UdpNext]_vars /\ WF_vars(UdpThreadSteps)
SpecUtil == Init /\ [][UtilNext]_vars
SpecFill == Init /\ [][FillNext]_vars
SpecLen == Init /\ [][LenNext]_vars
SpecAethU8 == Init /\ [][AethU8Next]_vars
SpecBth == Init /\ [][BthNext]_vars
SpecAeth == Init /\ [][AethNext]_vars
SpecCodec == Init /\ [][CodecNext]_vars

====
